---- MODULE Spec2Model ----
(***************************************************************************)
(* State-machine model of src/import/beets2tsnot.py and its companions.    *)
(*                                                                         *)
(* Part I  : EssentiaProcessor.extract_features, the adapter around the    *)
(*           external extractor and the amplification tool (Spec).         *)
(* Part II : Beets2TsnotProcessor, the batch pipeline that runs            *)
(*           _process_single_track over the selected tracks, sequentially  *)
(*           or on a thread pool, and commits per batch (PipelineSpec,     *)
(*           ResumeSpec).                                                  *)
(* Part III: PCAComputer, the discriminator fitting, weight export,        *)
(*           calibration and integrity validation, as functions of their   *)
(*           inputs (WeightsSpec, CalibrateSpec, IntegritySpec).           *)
(* Part IV : main, which runs the PCA stage after process_all (MainSpec).  *)
(* Part V  : FeatureProcessor, the flattener and the index derivation      *)
(*           (FeatureSpec).                                                *)
(* Part VI : the MusicVAE checkpoint written by services/musicVAE.py and   *)
(*           read by ml/music_vae.py MusicVAEInference (VaeSpec).          *)
(* Part VII: choose_radii of scripts/calibrate_embeddings.py (RadiiSpec).  *)
(***************************************************************************)
EXTENDS Integers, Sequences, FiniteSets, TLC

VARIABLES
    \* ---- EssentiaProcessor (Part I) ----
    pc,              \* position of the running extract_features call
    calls,           \* number of extract_features calls started so far
    validate_files,  \* self.config.validate_files
    track_path,      \* argument track_path
    track_id,        \* argument track_id
    path_exists,     \* Path(track_path).exists()
    amplified_path,  \* local amplified_path (None or a temporary .wav)
    tried_amplify,   \* local tried_amplify
    silent_attempted,\* local silent_attempted
    tmp_path,        \* local tmp_path (None or the per-attempt .json)
    stderr,          \* local stderr of the last failed extractor run
    files,           \* temporary files currently on disk
    proc,            \* the external process in flight
    result,          \* the (features, error_info) pair returned
    stats,           \* EssentiaProcessor.stats
    \* ---- history of the running call (observation only) ----
    created,         \* every temporary file created during the call
    events,          \* the external invocations of the call, in order
    last,            \* outcome of the most recent extractor invocation
    \* ---- Beets2TsnotProcessor and DatabaseManager (Part II) ----
    main_pc,         \* position of the main thread
    runs,            \* number of runs of the program started so far
    resume,          \* self.config.resume
    parallel_jobs,   \* self.config.parallel_jobs
    batch_size,      \* self.config.batch_size
    batch_start,     \* loop variable batch_start (0-based index into tracks)
    batch,           \* identifiers submitted to the executor for this batch
    collected,       \* futures the as_completed loop has consumed
    w,               \* per track: position of its _process_single_track call
    run_stats,       \* Beets2TsnotProcessor.stats
    music_analysis,  \* committed rows of music_analysis (identifiers)
    processing_log,  \* committed rows of processing_log (identifiers: nothing
                     \* reads the table, the error type of a committed row is
                     \* not kept)
    tx_rows,         \* music_analysis rows written but not yet committed
    tx_log,          \* processing_log rows written but not yet committed
    \* ---- the environment of the runs ----
    tracks,          \* identifiers get_tracks returns, in query order
    max_runs,        \* how often the program is run against the database
    \* ---- history of the runs (observation only) ----
    fate,            \* per track: how far its call got in this run
    store_at_start,  \* music_analysis as persisted when the run started
    commit_count,    \* commits made by _process_parallel/_process_sequential
    lost,            \* rows the previous run wrote and lost when it was killed
    \* ---- the PCA stage of main (Part IV) ----
    pca_transformations,      \* committed table pca_transformations
    projected,                \* committed projected columns of music_analysis
    pca_calibration_settings, \* committed table pca_calibration_settings
    pca_data,                 \* PCAComputer.data: identifiers loaded by the fit
    validation,               \* what validate_pca_integrity compared
    \* ---- history of the PCA stage (observation only) ----
    pca_at_start,             \* the three stores when the run's PCA stage began
    last_calibration,         \* run of the last insert_calibration_settings
    \* ---- a PCAComputer driven on its own (Part III) ----
    fpc,             \* position of the driver
    arg,             \* the inputs of the functions under study
    ret,             \* what they returned or raised
    rows             \* the projected columns of music_analysis, by identifier

evars == <<pc, calls, validate_files, track_path, track_id, path_exists,
           amplified_path, tried_amplify, silent_attempted, tmp_path, stderr,
           files, proc, result, stats, created, events, last>>

pvars == <<tracks, max_runs, main_pc, runs, resume, parallel_jobs, batch_size,
           batch_start, batch, collected, w, run_stats, music_analysis,
           processing_log, tx_rows, tx_log, fate, store_at_start, commit_count,
           lost>>

cvars == <<pca_transformations, projected, pca_calibration_settings, pca_data,
           validation, pca_at_start, last_calibration>>

fvars == <<fpc, arg, ret, rows>>

vars == <<evars, pvars, cvars, fvars>>

-----------------------------------------------------------------------------
(* Bounds of the model *)

\* extract_features calls made on one EssentiaProcessor
MaxCalls == 2
\* tracks the metadata query returns (single-run specification)
NumTracks == 3
\* tracks the metadata query returns (multi-run specification)
ResumeTracks == 2
\* runs of the program against the same output database
MaxRuns == 2
\* tracks selected and rows imported before, where one run of main is followed
\* through its PCA stage
MainTracks == 2
MainLibrary == 2
\* runs of main against the same output database, PCA stage included
MainRuns == 2
\* candidates of the calibration grid
NumCandidates == 3
\* rows of the library the calibration runs on (search_k = min(2000, n_tracks))
LibrarySize == 40
\* neighbours of a query point at any one distance
MaxInZone == 1
\* test queries of the calibration (n_test_queries = min(15, n_tracks))
NumQueries == 1
\* length of the lists of a measurement document
MaxListLen == 2
\* distances in a sample handed to choose_radii
MaxSample == 3
\* rows the validator compares at the end of a run
StageRows == 1000
\* rows of the library whose projected values are written and validated
IntegrityRows == 1000
\* rows a write by another process changes between the update and the validation
MaxChanged == 2

(* Program constants *)

\* ProcessingConfig.essentia_timeout (seconds)
essentia_timeout == 600
\* stderr[:200]
StderrSnippetLen == 200

-----------------------------------------------------------------------------
(* Python values *)

None == [py |-> "None"]

Min(a, b) == IF a <= b THEN a ELSE b

\* Track paths handed to extract_features; the suffix is what _can_amplify reads.
Paths == {"/m/quiet.FLAC", "/m/quiet.mp3", "/m/talk.opus", "/m/noext"}

\* Path(track_path).suffix
suffix(p) ==
    CASE p = "/m/quiet.FLAC" -> ".FLAC"
      [] p = "/m/quiet.mp3"  -> ".mp3"
      [] p = "/m/talk.opus"  -> ".opus"
      [] OTHER               -> ""

\* str.lower() on the suffixes above
lower(s) == IF s = ".FLAC" THEN ".flac" ELSE s

AmplifiableSuffixes ==
    {".flac", ".mp3", ".wav", ".aiff", ".aif", ".aac", ".ogg", ".m4a"}

_can_amplify(p) == lower(suffix(p)) \in AmplifiableSuffixes

\* Temporary files: NamedTemporaryFile(suffix=..., delete=False) returns a fresh name.
\* c is the call that creates the file, n its rank among that call's files.
TmpJson(c, n) == [suffix |-> ".json", call |-> c, n |-> n]
TmpWav(c, n)  == [suffix |-> ".wav", call |-> c, n |-> n]

\* Documents the extractor may leave at tmp_path.
\*   tree       a non-empty JSON object
\*   tree_ctrl  a JSON object with raw control characters inside (parses only
\*              once they are stripped)
\*   empty      the JSON object {}
\*   null       the JSON value null
\*   malformed  text that is not JSON (also the untouched, empty temp file)
\*   undecodable  bytes that are not UTF-8
Documents == {"tree", "tree_ctrl", "empty", "null", "malformed", "undecodable"}

\* text.translate(CONTROL_CHAR_MAP)
_sanitize_string(text) == IF text = "tree_ctrl" THEN "tree" ELSE text

\* json.loads: the parsed value, or the JSONDecodeError it raises
json_loads(text) ==
    CASE text = "tree"  -> [py |-> "dict", size |-> 1,
                            v |-> [rhythm |-> [bpm |-> 120]]]
      [] text = "empty" -> [py |-> "dict", size |-> 0]
      [] text = "null"  -> None
      [] OTHER          -> [py |-> "raise", exc |-> "JSONDecodeError"]

\* stderr of a failed extractor run: whether it mentions 'completely silent file'
\* (case-insensitively), leading whitespace, and the length of the stripped text.
StderrLens == {0, 150, 200, 201}
Stderrs ==
    [silent : {FALSE}, lead : {0, 1}, len : StderrLens]
      \cup [silent : {TRUE}, lead : {0}, len : {150, 201}]

_generate_silent_features(p) ==
    [py |-> "dict", size |-> 4,
     v  |-> [metadata |-> [audio_properties |->
                 [length |-> 0, silence_detected |-> TRUE, source_path |-> p]],
             rhythm |-> [bpm |-> 0, danceability |-> 0, onset_rate |-> 0,
                         beats_loudness |-> [mean |-> 0],
                         bpm_histogram_first_peak_weight |-> 0,
                         bpm_histogram_second_peak_weight |-> 0],
             tonal |-> [tuning_diatonic_strength |-> 0,
                        chords_strength |-> [mean |-> 0],
                        chords_changes_rate |-> 0,
                        hpcp_crest |-> [mean |-> 0],
                        hpcp_entropy |-> [mean |-> 0],
                        key_edma |-> [strength |-> 0],
                        key_krumhansl |-> [strength |-> 0],
                        key_temperley |-> [strength |-> 0]],
             lowlevel |-> [spectral_centroid |-> [mean |-> 0],
                           spectral_rolloff |-> [mean |-> 0],
                           spectral_kurtosis |-> [mean |-> 0],
                           spectral_energy |-> [mean |-> 0],
                           barkbands_flatness_db |-> [mean |-> 0]]]]

ErrorTypes ==
    {"file_not_found", "essentia_failed", "timeout", "json_parse", "unexpected"}

\* {'type': ..., 'message': ...}; of the message only the stderr excerpt is kept:
\* where it starts in the raw stderr and how long it is.
ErrorInfo(type, from, len) == [type |-> type, from |-> from, len |-> len]

\* stderr[:200] of the stripped stderr: the length of the excerpt
stderr_snippet_untruncated(s) == s.len

stderr_snippet(s) == Min(s.len, StderrSnippetLen)

\* A path argument of an external tool: the source file or a temporary file.
SrcPath(p) == [src |-> p]

NoProc == [tool |-> "none", timeout |-> 0, input |-> None, output |-> None]

NoStderr == [silent |-> FALSE, lead |-> 0, len |-> 0]

NoOutcome == [kind |-> "none"]

\* _record_error
_record_error(st, error_type, id) ==
    [st EXCEPT !.errors[error_type] = Append(@, id), !.failed = @ + 1]

-----------------------------------------------------------------------------
(* EssentiaProcessor.__init__ *)

InitExtract ==
    /\ pc = "idle"
    /\ calls = 0
    /\ validate_files = TRUE
    /\ track_path = ""
    /\ track_id = 0
    /\ path_exists = TRUE
    /\ amplified_path = None
    /\ tried_amplify = FALSE
    /\ silent_attempted = FALSE
    /\ tmp_path = None
    /\ stderr = NoStderr
    /\ files = {}
    /\ proc = NoProc
    /\ result = [features |-> None, error |-> None]
    /\ stats = [processed |-> 0, failed |-> 0, skipped |-> 0,
                errors |-> [t \in ErrorTypes |-> <<>>]]
    /\ created = {}
    /\ events = <<>>
    /\ last = NoOutcome

\* What every return of extract_features does last: the outer finally removes the
\* amplified rendering that amplified_path names.
Return(features, error, fs, amp) ==
    /\ result' = [features |-> features, error |-> error]
    /\ files' = IF amp # None THEN fs \ {amp} ELSE fs
    /\ proc' = NoProc
    /\ pc' = "done"

\* A failure return: _record_error, then (None, error_info).
Fail(type, from, len, fs, amp) ==
    /\ stats' = _record_error(stats, type, track_id)
    /\ Return(None, ErrorInfo(type, from, len), fs, amp)

\* Call with silent_attempted kept from the previous call, as an attribute of
\* the processor would be.
Call_KeepsSilentAttempted ==
    /\ pc \in {"idle", "done"}
    /\ calls < MaxCalls
    /\ calls' = calls + 1
    /\ track_id' = calls + 1
    /\ \E p \in Paths : track_path' = p
    /\ \E b \in BOOLEAN : validate_files' = b
    /\ \E b \in BOOLEAN : path_exists' = b
    /\ amplified_path' = None
    /\ tried_amplify' = FALSE
    /\ tmp_path' = None
    /\ stderr' = NoStderr
    /\ result' = [features |-> None, error |-> None]
    /\ created' = {}
    /\ events' = <<>>
    /\ last' = NoOutcome
    /\ pc' = "validate"
    /\ UNCHANGED <<files, proc, stats, silent_attempted>>

\* extract_features is entered: lines 330-332 initialise the locals.
Call ==
    /\ pc \in {"idle", "done"}
    /\ calls < MaxCalls
    /\ calls' = calls + 1
    /\ track_id' = calls + 1
    /\ \E p \in Paths : track_path' = p
    /\ \E b \in BOOLEAN : validate_files' = b
    /\ \E b \in BOOLEAN : path_exists' = b
    /\ amplified_path' = None
    /\ tried_amplify' = FALSE
    /\ silent_attempted' = FALSE
    /\ tmp_path' = None
    /\ stderr' = NoStderr
    /\ result' = [features |-> None, error |-> None]
    /\ created' = {}
    /\ events' = <<>>
    /\ last' = NoOutcome
    /\ pc' = "validate"
    /\ UNCHANGED <<files, proc, stats>>

\* Validate with the existence check left out.
Validate_Unchecked ==
    /\ pc = "validate"
    /\ pc' = "loop"
    /\ UNCHANGED <<result, files, proc, stats>>
    /\ UNCHANGED <<calls, validate_files, track_path, track_id, path_exists,
                   amplified_path, tried_amplify, silent_attempted, tmp_path,
                   stderr, created, events, last>>

\* Lines 335-340: the file-existence check.
Validate ==
    /\ pc = "validate"
    /\ IF validate_files /\ ~path_exists
         THEN /\ Fail("file_not_found", 0, 0, files, amplified_path)
         ELSE /\ pc' = "loop"
              /\ UNCHANGED <<result, files, proc, stats>>
    /\ UNCHANGED <<calls, validate_files, track_path, track_id, path_exists,
                   amplified_path, tried_amplify, silent_attempted, tmp_path,
                   stderr, created, events, last>>

\* amplified_path or track_path
path_to_use ==
    IF amplified_path # None THEN amplified_path ELSE SrcPath(track_path)

\* Lines 342-361: top of the loop. The temporary .json is created and
\* subprocess.run starts the extractor with timeout=essentia_timeout.
Invoke ==
    /\ pc = "loop"
    /\ LET tmp == TmpJson(calls, Cardinality(created) + 1) IN
         /\ tmp_path' = tmp
         /\ files' = files \cup {tmp}
         /\ created' = created \cup {tmp}
         /\ proc' = [tool |-> "extractor", timeout |-> essentia_timeout,
                     input |-> path_to_use, output |-> tmp]
    /\ events' = Append(events, [tool |-> "extractor", input |-> path_to_use,
                                 timeout |-> essentia_timeout])
    /\ pc' = "invoke"
    /\ UNCHANGED <<calls, validate_files, track_path, track_id, path_exists,
                   amplified_path, tried_amplify, silent_attempted, stderr,
                   result, stats, last>>

\* SilenceFallback with the silent_attempted test inverted.
SilenceFallback_Inverted(fs) ==
    IF silent_attempted
      THEN /\ Return(_generate_silent_features(track_path), None, fs,
                     amplified_path)
           /\ UNCHANGED <<stats, silent_attempted>>
      ELSE /\ Fail("essentia_failed", stderr.lead, stderr_snippet(stderr), fs,
                   amplified_path)
           /\ UNCHANGED silent_attempted

\* Lines 373-383, reached when the extractor reported silence and no amplified
\* retry follows: the synthetic tree is returned unless silent_attempted is set,
\* in which case control falls through to the essentia_failed return.
SilenceFallback(fs) ==
    IF ~silent_attempted
      THEN /\ silent_attempted' = TRUE
           /\ Return(_generate_silent_features(track_path), None, fs,
                     amplified_path)
           /\ UNCHANGED stats
      ELSE /\ Fail("essentia_failed", stderr.lead, stderr_snippet(stderr), fs,
                   amplified_path)
           /\ UNCHANGED silent_attempted

\* Lines 419-435: _amplify_track creates the temporary .wav and starts ffmpeg;
\* subprocess.run is given no timeout.
StartAmplify ==
    LET wav == TmpWav(calls, Cardinality(created) + 1) IN
      /\ files' = files \cup {wav}
      /\ created' = created \cup {wav}
      /\ proc' = [tool |-> "ffmpeg", timeout |-> 0,
                  input |-> SrcPath(track_path), output |-> wav]
      /\ events' = Append(events, [tool |-> "ffmpeg",
                                   input |-> SrcPath(track_path),
                                   timeout |-> 0])
      /\ pc' = "amplify"

\* Lines 363-383: the extractor exited with a non-zero return code.
ExtractorFails(s) ==
    /\ pc = "invoke"
    /\ stderr' = s
    /\ last' = [kind |-> "exit", returncode |-> 1, stderr |-> s]
    /\ IF s.silent
         THEN IF ~tried_amplify /\ _can_amplify(track_path)
                THEN /\ StartAmplify
                     /\ UNCHANGED <<result, stats, silent_attempted>>
                ELSE /\ SilenceFallback(files \ {tmp_path})
                     /\ UNCHANGED <<created, events>>
         ELSE /\ Fail("essentia_failed", s.lead, stderr_snippet(s),
                      files \ {tmp_path}, amplified_path)
              /\ UNCHANGED <<created, events, silent_attempted>>
    /\ UNCHANGED <<calls, validate_files, track_path, track_id, path_exists,
                   amplified_path, tried_amplify, tmp_path>>

\* Lines 385-389 and the handlers at 400-410: the extractor exited with 0; the
\* document at tmp_path is read, sanitized and parsed.
ExtractorSucceeds(doc) ==
    /\ pc = "invoke"
    /\ last' = [kind |-> "exit", returncode |-> 0, doc |-> doc]
    /\ IF doc = "undecodable"
         THEN Fail("unexpected", 0, 0, files \ {tmp_path}, amplified_path)
         ELSE LET features == json_loads(_sanitize_string(doc)) IN
                IF features.py = "raise"
                  THEN Fail("json_parse", 0, 0, files \ {tmp_path},
                            amplified_path)
                  ELSE /\ Return(features, None, files \ {tmp_path},
                                 amplified_path)
                       /\ UNCHANGED stats
    /\ UNCHANGED <<calls, validate_files, track_path, track_id, path_exists,
                   amplified_path, tried_amplify, silent_attempted, tmp_path,
                   stderr, created, events>>

\* Lines 394-398: subprocess.run raised TimeoutExpired.
ExtractorTimeout ==
    /\ pc = "invoke"
    /\ proc.timeout > 0
    /\ last' = [kind |-> "timeout"]
    /\ Fail("timeout", 0, 0, files \ {tmp_path}, amplified_path)
    /\ UNCHANGED <<calls, validate_files, track_path, track_id, path_exists,
                   amplified_path, tried_amplify, silent_attempted, tmp_path,
                   stderr, created, events>>

\* Lines 406-410: subprocess.run raised OSError (the extractor binary is missing
\* or cannot be executed).
ExtractorSpawnFails ==
    /\ pc = "invoke"
    /\ last' = [kind |-> "oserror"]
    /\ Fail("unexpected", 0, 0, files \ {tmp_path}, amplified_path)
    /\ UNCHANGED <<calls, validate_files, track_path, track_id, path_exists,
                   amplified_path, tried_amplify, silent_attempted, tmp_path,
                   stderr, created, events>>

\* AmplifySucceeds without tried_amplify being set.
AmplifySucceeds_NoFlag ==
    /\ pc = "amplify"
    /\ amplified_path' = proc.output
    /\ files' = files \ {tmp_path}
    /\ proc' = NoProc
    /\ pc' = "loop"
    /\ UNCHANGED <<calls, validate_files, track_path, track_id, path_exists,
                   tried_amplify, silent_attempted, tmp_path, stderr, result,
                   stats, created, events, last>>

\* Lines 442, 368-371 and 392: ffmpeg exited with 0. _amplify_track returns the
\* rendering; extract_features sets tried_amplify and continues, the inner
\* finally removing the attempt's .json on the way.
AmplifySucceeds ==
    /\ pc = "amplify"
    /\ amplified_path' = proc.output
    /\ tried_amplify' = TRUE
    /\ files' = files \ {tmp_path}
    /\ proc' = NoProc
    /\ pc' = "loop"
    /\ UNCHANGED <<calls, validate_files, track_path, track_id, path_exists,
                   silent_attempted, tmp_path, stderr, result, stats, created,
                   events, last>>

\* Lines 436-440 and 373-377: ffmpeg exited non-zero. _amplify_track removes the
\* rendering and returns None.
AmplifyFails ==
    /\ pc = "amplify"
    /\ SilenceFallback((files \ {proc.output}) \ {tmp_path})
    /\ UNCHANGED <<calls, validate_files, track_path, track_id, path_exists,
                   amplified_path, tried_amplify, tmp_path, stderr, created,
                   events, last>>

\* Lines 444-446 and 373-377: subprocess.run raised inside _amplify_track (ffmpeg
\* is missing or cannot be executed). The handler logs and returns None; the
\* rendering created at line 421 is not removed.
AmplifyCrashes ==
    /\ pc = "amplify"
    /\ SilenceFallback(files \ {tmp_path})
    /\ UNCHANGED <<calls, validate_files, track_path, track_id, path_exists,
                   amplified_path, tried_amplify, tmp_path, stderr, created,
                   events, last>>

NextExtract ==
    \/ Call /\ UNCHANGED <<pvars, cvars, fvars>>
    \/ Validate /\ UNCHANGED <<pvars, cvars, fvars>>
    \/ Invoke /\ UNCHANGED <<pvars, cvars, fvars>>
    \/ \E s \in Stderrs : ExtractorFails(s) /\ UNCHANGED <<pvars, cvars, fvars>>
    \/ \E doc \in Documents : ExtractorSucceeds(doc) /\ UNCHANGED <<pvars, cvars, fvars>>
    \/ ExtractorTimeout /\ UNCHANGED <<pvars, cvars, fvars>>
    \/ ExtractorSpawnFails /\ UNCHANGED <<pvars, cvars, fvars>>
    \/ AmplifySucceeds /\ UNCHANGED <<pvars, cvars, fvars>>
    \/ AmplifyFails /\ UNCHANGED <<pvars, cvars, fvars>>
    \/ AmplifyCrashes /\ UNCHANGED <<pvars, cvars, fvars>>

\* The calls of one processor observed: when a call returns after its last
\* extractor run reported silence on a track that cannot be amplified, the
\* path, what was returned and the failures counted before are appended to
\* rows.
ObserveReturn ==
    /\ rows' = IF /\ pc # "done"
                  /\ pc' = "done"
                  /\ last'.kind = "exit"
                  /\ last'.returncode = 1
                  /\ last'.stderr.silent
                  /\ ~_can_amplify(track_path)
                 THEN Append(rows, [path |-> track_path,
                                    returned |-> result',
                                    failed |-> stats.failed])
                 ELSE rows
    /\ UNCHANGED <<pvars, cvars, fpc, arg, ret>>

NextRepeat ==
    \/ Call /\ ObserveReturn
    \/ Validate /\ ObserveReturn
    \/ Invoke /\ ObserveReturn
    \/ \E s \in Stderrs : ExtractorFails(s) /\ ObserveReturn
    \/ \E doc \in Documents : ExtractorSucceeds(doc) /\ ObserveReturn
    \/ ExtractorTimeout /\ ObserveReturn
    \/ ExtractorSpawnFails /\ ObserveReturn
    \/ AmplifySucceeds /\ ObserveReturn
    \/ AmplifyFails /\ ObserveReturn
    \/ AmplifyCrashes /\ ObserveReturn

-----------------------------------------------------------------------------
(* Part II: Beets2TsnotProcessor *)

TrackIds == 1..Len(tracks)

\* Positions of main inside the PCA stage (lines 2067-2088).
PcaStage == {"fit", "weights", "update", "calibrate", "validate"}

\* Values of --parallel and --batch-size the model runs with.
ParallelJobs == {1, 2}
BatchSizes == {1, 2}

\* What extract_features hands back to _process_single_track (Part I): a parsed
\* tree, an empty parsed document, the synthetic tree, a typed failure, or
\* (None, None).
ExtractResults ==
    {[features |-> json_loads("tree"), error |-> None],
     [features |-> json_loads("empty"), error |-> None],
     [features |-> _generate_silent_features("/m/quiet.mp3"), error |-> None],
     [features |-> None, error |-> None],
     [features |-> None, error |-> ErrorInfo("essentia_failed", 0, 0)]}

\* Python truthiness of the features value: None and {} are falsy.
truthy(features) ==
    /\ features # None
    /\ features # json_loads("empty")

Idle == [pc |-> "unsubmitted", error_type |-> "", key |-> "", loaded |-> 0]

Queued == [pc |-> "queued", error_type |-> "", key |-> "", loaded |-> 0]

\* self.stats[key] += 1 as the interpreter runs it in a thread: the value of
\* self.stats[key] is loaded here, and stored back incremented by TrackCount.
LoadCounter(key) ==
    [pc |-> "count", error_type |-> "", key |-> key, loaded |-> run_stats[key]]

Terminal == {"returned", "raised"}

Running(t) == w[t].pc \notin {"unsubmitted", "queued", "returned", "raised"}

NoStats == [processed |-> 0, skipped |-> 0, failed |-> 0, total |-> 0]

\* DatabaseManager.track_exists with a query that never matches.
track_exists_never(identifier) == FALSE

\* DatabaseManager.track_exists: SELECT 1 FROM music_analysis WHERE identifier = ?
\* on the shared connection, which also sees the open transaction's rows.
track_exists(identifier) == identifier \in music_analysis \cup tx_rows

\* DatabaseManager.__init__ and Beets2TsnotProcessor.__init__ on a new database;
\* n tracks are in the metadata source, the program is run at most r times; lib
\* more rows, of tracks no longer selected, were imported before.
InitPipeline(n, r, lib) ==
    /\ tracks = [i \in 1..n |-> i]
    /\ max_runs = r
    /\ main_pc = "none"
    /\ runs = 0
    /\ resume = TRUE
    /\ parallel_jobs = 1
    /\ batch_size = 2
    /\ batch_start = 0
    /\ batch = {}
    /\ collected = {}
    /\ w = [t \in 1..n |-> Idle]
    /\ run_stats = NoStats
    /\ music_analysis = {n + i : i \in 1..lib}
    /\ processing_log = {}
    /\ tx_rows = {}
    /\ tx_log = {}
    /\ fate = [t \in 1..n |-> "none"]
    /\ store_at_start = {n + i : i \in 1..lib}
    /\ commit_count = 0
    /\ lost = {}

\* main() up to process_all's dispatch: the processor is constructed on the
\* existing output database and the tracks are selected.
StartRun ==
    /\ main_pc \in {"none", "killed", "complete", "failed"}
    /\ runs < max_runs
    /\ runs' = runs + 1
    /\ \E b \in BOOLEAN : resume' = b
    /\ \E j \in ParallelJobs : parallel_jobs' = j
    /\ \E k \in BatchSizes : batch_size' = k
    /\ batch_start' = 0
    /\ batch' = {}
    /\ collected' = {}
    /\ w' = [t \in TrackIds |-> Idle]
    /\ run_stats' = [NoStats EXCEPT !.total = Len(tracks)]
    /\ fate' = [t \in TrackIds |-> "none"]
    /\ store_at_start' = music_analysis
    /\ commit_count' = 0
    /\ main_pc' = "process"
    /\ pca_data' = {}
    /\ validation' = None
    /\ pca_at_start' = None
    /\ UNCHANGED <<tracks, max_runs, music_analysis, processing_log, tx_rows,
                   tx_log, lost, pca_transformations, projected,
                   pca_calibration_settings, last_calibration>>

\* DatabaseManager.commit
commit ==
    /\ music_analysis' = music_analysis \cup tx_rows
    /\ processing_log' = processing_log \cup {r.identifier : r \in tx_log}
    /\ tx_rows' = {}
    /\ tx_log' = {}

\* The identifiers of tracks[start : start + size]
Slice(start, size) ==
    {tracks[i] : i \in {j \in 1..Len(tracks) : start < j /\ j <= start + size}}

\* ---- _process_single_track, run by a pool thread or by the main thread ----

\* Lines 1808-1814: the call starts; the resume check. The pool hands out the
\* submitted tracks in order, to at most parallel_jobs threads at a time; the
\* sequential loop starts a track only when the one before is dealt with.
TrackStart(t) ==
    /\ main_pc \in {"seq_loop", "collect"}
    /\ w[t].pc = "queued"
    /\ \A u \in batch : u < t => w[u].pc # "queued"
    /\ Cardinality({u \in batch : Running(u)}) < parallel_jobs
    /\ main_pc = "seq_loop" => \A u \in batch : u < t => u \in collected
    /\ IF resume /\ track_exists(t)
         THEN /\ fate' = [fate EXCEPT ![t] = "skipped"]
              /\ w' = [w EXCEPT ![t] = LoadCounter("skipped")]
         ELSE /\ w' = [w EXCEPT ![t].pc = "extract"]
              /\ fate' = [fate EXCEPT ![t] = "started"]
    /\ UNCHANGED <<run_stats, tracks, max_runs, main_pc, runs, resume, parallel_jobs,
                   batch_size, batch_start, batch, collected, music_analysis,
                   processing_log, tx_rows, tx_log, store_at_start,
                   commit_count, lost>>

\* Lines 1817-1824: extract_features returns r; a falsy features value selects
\* the failure branch and the error type to log.
TrackExtract(t, r) ==
    /\ w[t].pc = "extract"
    /\ fate' = [fate EXCEPT ![t] = "extracted"]
    /\ IF ~truthy(r.features)
         THEN w' = [w EXCEPT ![t] =
                      [pc |-> "log_failure",
                       error_type |-> IF r.error # None THEN r.error.type
                                      ELSE "extraction_failed"]]
         ELSE w' = [w EXCEPT ![t].pc = "process"]
    /\ UNCHANGED <<tracks, max_runs, main_pc, runs, resume, parallel_jobs,
                   batch_size, batch_start, batch, collected, run_stats,
                   music_analysis, processing_log, tx_rows, tx_log,
                   store_at_start, commit_count, lost>>

\* Lines 1826-1828: log_error for the failed extraction, then failed += 1 and
\* return False; an exception from log_error enters the handler at 1841.
TrackLogFailure(t, raises) ==
    /\ w[t].pc = "log_failure"
    /\ IF raises
         THEN /\ w' = [w EXCEPT ![t].pc = "handler", ![t].error_type = ""]
              /\ UNCHANGED <<tx_log, fate>>
         ELSE /\ tx_log' = tx_log \cup {[identifier |-> t,
                                         error_type |-> w[t].error_type]}
              /\ fate' = [fate EXCEPT ![t] = "failed"]
              /\ w' = [w EXCEPT ![t] = LoadCounter("failed")]
    /\ UNCHANGED <<run_stats, tracks, max_runs, main_pc, runs, resume, parallel_jobs,
                   batch_size, batch_start, batch, collected, music_analysis,
                   processing_log, tx_rows, store_at_start, commit_count, lost>>

\* Lines 1831-1839: flatten, derive the indices, insert_track, processed += 1;
\* any of the three may raise, which enters the handler at 1841.
TrackProcess(t, raises) ==
    /\ w[t].pc = "process"
    /\ IF raises
         THEN /\ w' = [w EXCEPT ![t].pc = "handler"]
              /\ UNCHANGED <<tx_rows, fate>>
         ELSE /\ tx_rows' = tx_rows \cup {t}
              /\ fate' = [fate EXCEPT ![t] = "processed"]
              /\ w' = [w EXCEPT ![t] = LoadCounter("processed")]
    /\ UNCHANGED <<run_stats, tracks, max_runs, main_pc, runs, resume, parallel_jobs,
                   batch_size, batch_start, batch, collected, music_analysis,
                   processing_log, tx_log, store_at_start, commit_count, lost>>

\* Lines 1841-1847: the handler logs 'processing_error', counts the failure and
\* returns False; if log_error raises here the exception leaves the call.
TrackHandler(t, raises) ==
    /\ w[t].pc = "handler"
    /\ IF raises
         THEN /\ w' = [w EXCEPT ![t].pc = "raised"]
              /\ fate' = [fate EXCEPT ![t] = "raised"]
              /\ UNCHANGED tx_log
         ELSE /\ tx_log' = tx_log \cup {[identifier |-> t,
                                         error_type |-> "processing_error"]}
              /\ fate' = [fate EXCEPT ![t] = "failed"]
              /\ w' = [w EXCEPT ![t] = LoadCounter("failed")]
    /\ UNCHANGED <<run_stats, tracks, max_runs, main_pc, runs, resume,
                   parallel_jobs, batch_size, batch_start, batch, collected,
                   music_analysis, processing_log, tx_rows, store_at_start,
                   commit_count, lost>>

\* Lines 1813, 1827, 1837 and 1846: the second half of self.stats[key] += 1. The
\* thread stores the value it loaded, plus one, into the dictionary all the
\* threads of the pool share, and _process_single_track returns.
TrackCount(t) ==
    /\ w[t].pc = "count"
    /\ run_stats' = [run_stats EXCEPT ![w[t].key] = w[t].loaded + 1]
    /\ w' = [w EXCEPT ![t] = [pc |-> "returned", error_type |-> "",
                              key |-> "", loaded |-> 0]]
    /\ UNCHANGED <<tracks, max_runs, main_pc, runs, resume, parallel_jobs,
                   batch_size, batch_start, batch, collected, music_analysis,
                   processing_log, tx_rows, tx_log, fate, store_at_start,
                   commit_count, lost>>

\* ---- the main thread ----

\* Lines 1749-1750 and 1759: process_all dispatches to _process_sequential, whose
\* loop runs over all the tracks.
SequentialBegin ==
    /\ main_pc = "process"
    /\ parallel_jobs = 1
    /\ batch' = Slice(0, Len(tracks))
    /\ w' = [t \in TrackIds |-> Queued]
    /\ collected' = {}
    /\ main_pc' = "seq_loop"
    /\ UNCHANGED <<tracks, max_runs, runs, resume, parallel_jobs, batch_size,
                   batch_start, run_stats, music_analysis, processing_log,
                   tx_rows, tx_log, fate, store_at_start, commit_count, lost>>

\* Lines 1760-1772: one iteration ends; an exception that left
\* _process_single_track is logged and counted.
SequentialNext(t) ==
    /\ main_pc = "seq_loop"
    /\ t \in batch \ collected
    /\ w[t].pc \in Terminal
    /\ collected' = collected \cup {t}
    /\ run_stats' = IF w[t].pc = "raised"
                      THEN [run_stats EXCEPT !.failed = @ + 1]
                      ELSE run_stats
    /\ UNCHANGED <<tracks, max_runs, main_pc, runs, resume, parallel_jobs,
                   batch_size, batch_start, batch, w, music_analysis,
                   processing_log, tx_rows, tx_log, fate, store_at_start,
                   commit_count, lost>>

\* Line 1774: the loop is over; the single commit of the sequential mode.
SequentialCommit ==
    /\ main_pc = "seq_loop"
    /\ collected = batch
    /\ commit
    /\ commit_count' = commit_count + 1
    /\ batch_start' = Len(tracks)
    /\ main_pc' = "finalize"
    /\ UNCHANGED <<tracks, max_runs, runs, resume, parallel_jobs, batch_size,
                   batch, collected, w, run_stats, fate, store_at_start, lost>>

\* Lines 1751-1752 and 1780-1788: the next batch is sliced off and submitted to
\* a fresh ThreadPoolExecutor.
SubmitBatch ==
    /\ main_pc = "process"
    /\ parallel_jobs # 1
    /\ batch_start < Len(tracks)
    /\ batch' = Slice(batch_start, batch_size)
    /\ w' = [t \in TrackIds |->
               IF t \in Slice(batch_start, batch_size) THEN Queued ELSE w[t]]
    /\ collected' = {}
    /\ main_pc' = "collect"
    /\ UNCHANGED <<tracks, max_runs, runs, resume, parallel_jobs, batch_size,
                   batch_start, run_stats, music_analysis, processing_log,
                   tx_rows, tx_log, fate, store_at_start, commit_count, lost>>

\* Collect without the except clause: an exception held by a future leaves
\* _process_parallel and ends the run in failure.
Collect_Uncaught(t) ==
    /\ main_pc = "collect"
    /\ t \in batch \ collected
    /\ w[t].pc \in Terminal
    /\ collected' = collected \cup {t}
    /\ main_pc' = IF w[t].pc = "raised" THEN "failed" ELSE main_pc
    /\ UNCHANGED <<tracks, max_runs, runs, resume, parallel_jobs, batch_size,
                   batch_start, batch, w, run_stats, music_analysis,
                   processing_log, tx_rows, tx_log, fate, store_at_start,
                   commit_count, lost>>

\* Lines 1791-1797: as_completed yields a finished future; an exception it
\* holds is logged and counted.
Collect(t) ==
    /\ main_pc = "collect"
    /\ t \in batch \ collected
    /\ w[t].pc \in Terminal
    /\ collected' = collected \cup {t}
    /\ run_stats' = IF w[t].pc = "raised"
                      THEN [run_stats EXCEPT !.failed = @ + 1]
                      ELSE run_stats
    /\ UNCHANGED <<tracks, max_runs, main_pc, runs, resume, parallel_jobs,
                   batch_size, batch_start, batch, w, music_analysis,
                   processing_log, tx_rows, tx_log, fate, store_at_start,
                   commit_count, lost>>

\* CommitBatch taken as soon as one future has been consumed, as if the commit
\* stood inside the as_completed loop.
CommitBatch_InsideLoop ==
    /\ main_pc = "collect"
    /\ collected # {}
    /\ commit
    /\ commit_count' = commit_count + 1
    /\ batch_start' = batch_start + batch_size
    /\ main_pc' = IF batch_start + batch_size < Len(tracks)
                    THEN "process" ELSE "finalize"
    /\ UNCHANGED <<tracks, max_runs, runs, resume, parallel_jobs, batch_size,
                   batch, collected, w, run_stats, fate, store_at_start, lost>>

\* Lines 1783-1800: the as_completed loop has consumed every future and the
\* with-block has joined the pool; the batch is committed and the loop goes on.
CommitBatch ==
    /\ main_pc = "collect"
    /\ collected = batch
    /\ commit
    /\ commit_count' = commit_count + 1
    /\ batch_start' = batch_start + batch_size
    /\ main_pc' = IF batch_start + batch_size < Len(tracks)
                    THEN "process" ELSE "finalize"
    /\ UNCHANGED <<tracks, max_runs, runs, resume, parallel_jobs, batch_size,
                   batch, collected, w, run_stats, fate, store_at_start, lost>>

\* _finalize_processing reached without waiting for the batch: process_all
\* returns while workers of the pool may still be running.
Finalize_BeforeJoin ==
    /\ main_pc \in {"collect", "finalize"}
    /\ commit
    /\ main_pc' = "extracted"
    /\ lost' = {}
    /\ UNCHANGED <<tracks, max_runs, runs, resume, parallel_jobs, batch_size,
                   batch_start, batch, collected, w, run_stats, fate,
                   store_at_start, commit_count>>

\* Lines 1755 and 1864-1874: _finalize_processing writes the run's metadata and
\* commits.
Finalize ==
    /\ main_pc = "finalize"
    /\ commit
    /\ main_pc' = "extracted"
    /\ lost' = {}
    /\ UNCHANGED <<tracks, max_runs, runs, resume, parallel_jobs, batch_size,
                   batch_start, batch, collected, w, run_stats, fate,
                   store_at_start, commit_count>>

\* The process is killed (or the machine stops) during a run: its memory is gone
\* and the database rolls the open transaction back.
Kill ==
    /\ main_pc \in {"process", "seq_loop", "collect", "finalize", "extracted"}
                   \cup PcaStage
    /\ lost' = tx_rows
    /\ tx_rows' = {}
    /\ tx_log' = {}
    /\ main_pc' = "killed"
    /\ batch_start' = 0
    /\ batch' = {}
    /\ collected' = {}
    /\ w' = [t \in TrackIds |-> Idle]
    /\ run_stats' = NoStats
    /\ fate' = [t \in TrackIds |-> "none"]
    /\ commit_count' = 0
    /\ pca_data' = {}
    /\ validation' = None
    /\ pca_at_start' = None
    /\ UNCHANGED <<tracks, max_runs, runs, resume, parallel_jobs, batch_size,
                   music_analysis, processing_log, store_at_start,
                   pca_transformations, projected, pca_calibration_settings,
                   last_calibration>>

NextPipeline ==
    \/ StartRun /\ UNCHANGED <<evars, fvars>>
    \/ \E t \in TrackIds : TrackStart(t) /\ UNCHANGED <<evars, cvars, fvars>>
    \/ \E t \in TrackIds, r \in ExtractResults :
          TrackExtract(t, r) /\ UNCHANGED <<evars, cvars, fvars>>
    \/ \E t \in TrackIds, raises \in BOOLEAN :
          TrackLogFailure(t, raises) /\ UNCHANGED <<evars, cvars, fvars>>
    \/ \E t \in TrackIds, raises \in BOOLEAN :
          TrackProcess(t, raises) /\ UNCHANGED <<evars, cvars, fvars>>
    \/ \E t \in TrackIds, raises \in BOOLEAN :
          TrackHandler(t, raises) /\ UNCHANGED <<evars, cvars, fvars>>
    \/ \E t \in TrackIds : TrackCount(t) /\ UNCHANGED <<evars, cvars, fvars>>
    \/ SequentialBegin /\ UNCHANGED <<evars, cvars, fvars>>
    \/ \E t \in TrackIds : SequentialNext(t) /\ UNCHANGED <<evars, cvars, fvars>>
    \/ SequentialCommit /\ UNCHANGED <<evars, cvars, fvars>>
    \/ SubmitBatch /\ UNCHANGED <<evars, cvars, fvars>>
    \/ \E t \in TrackIds : Collect(t) /\ UNCHANGED <<evars, cvars, fvars>>
    \/ CommitBatch /\ UNCHANGED <<evars, cvars, fvars>>
    \/ Finalize /\ UNCHANGED <<evars, cvars, fvars>>
    \/ Kill /\ UNCHANGED <<evars, fvars>>

-----------------------------------------------------------------------------
(* Part III: PCAComputer *)

\* PCAComputer.__init__: the 18 core features, in order.
core_indices ==
    <<"bpm", "danceability", "onset_rate", "beat_punch",
      "tonal_clarity", "tuning_purity", "fifths_strength",
      "chord_strength", "chord_change_rate", "crest", "entropy",
      "spectral_centroid", "spectral_rolloff", "spectral_kurtosis",
      "spectral_energy", "spectral_flatness", "sub_drive", "air_sizzle">>

\* PCAComputer.__init__: the domain groupings.
domain_indices ==
    [tonal    |-> <<"tonal_clarity", "tuning_purity", "fifths_strength",
                    "chord_strength", "chord_change_rate", "crest", "entropy">>,
     spectral |-> <<"spectral_centroid", "spectral_rolloff",
                    "spectral_kurtosis", "spectral_energy",
                    "spectral_flatness", "sub_drive", "air_sizzle">>,
     rhythmic |-> <<"bpm", "danceability", "onset_rate", "beat_punch">>]

\* PCA(n_components=3) of the domain discriminators
n_components == 3

\* The row count extract_transformation_weights expects
ExpectedWeights == 72

\* The discriminators, in the order calibration and export visit them.
Discriminators == <<"primary_d", "tonal", "spectral", "rhythmic">>

\* A PCAComputer constructed with feature lists core and dom.
PCAComputer(core, dom) ==
    [core_indices |-> core, domain_indices |-> dom, discriminators |-> None]

\* fit_pca_on_library, as far as the export reads its result: what it records
\* per discriminator in self.discriminators.
fit_pca_on_library(self) ==
    [self EXCEPT !.discriminators =
        [primary_d |-> [n_components |-> 1,
                        feature_indices |-> self.core_indices],
         tonal     |-> [n_components |-> n_components,
                        feature_indices |-> self.domain_indices.tonal],
         spectral  |-> [n_components |-> n_components,
                        feature_indices |-> self.domain_indices.spectral],
         rhythmic  |-> [n_components |-> n_components,
                        feature_indices |-> self.domain_indices.rhythmic]]]

\* f"{domain_name}_pc{component_idx + 1}"
component_name(domain_name, component_idx) ==
    [tonal    |-> <<"tonal_pc1", "tonal_pc2", "tonal_pc3">>,
     spectral |-> <<"spectral_pc1", "spectral_pc2", "spectral_pc3">>,
     rhythmic |-> <<"rhythmic_pc1", "rhythmic_pc2", "rhythmic_pc3">>]
       [domain_name][component_idx + 1]

\* The ten projected columns of music_analysis.
Columns ==
    {"primary_d"} \cup
    {component_name(d, i) : d \in {"tonal", "spectral", "rhythmic"},
                            i \in 0..(n_components - 1)}

\* Lines 771-783: one row per core feature (weight, mean and scale, three
\* floats read from the fitted model, are not kept).
primary_rows(self) ==
    [i \in 1..Len(self.core_indices) |->
        [component |-> "primary_d",
         feature_index |-> i - 1,
         feature_name |-> self.core_indices[i]]]

\* A variant of the loop of lines 794-812 that names every component of a
\* domain after the first one.
domain_rows_first_component(self, domain_name) ==
    LET info == self.discriminators[domain_name]
        F == Len(info.feature_indices)
    IN  [k \in 1..(info.n_components * F) |->
            [component |-> component_name(domain_name, 0),
             feature_index |-> (k - 1) % F,
             feature_name |-> info.feature_indices[((k - 1) % F) + 1]]]

\* Lines 788-812: for each component of the domain, one row per feature.
domain_rows(self, domain_name) ==
    LET info == self.discriminators[domain_name]
        F == Len(info.feature_indices)
    IN  [k \in 1..(info.n_components * F) |->
            [component |-> component_name(domain_name, (k - 1) \div F),
             feature_index |-> (k - 1) % F,
             feature_name |-> info.feature_indices[((k - 1) % F) + 1]]]

\* extract_transformation_weights: the rows in the order they are appended; a
\* count other than 72 is logged as a warning (lines 819-820) and the rows are
\* returned all the same.
extract_transformation_weights(self) ==
    primary_rows(self) \o domain_rows(self, "tonal")
        \o domain_rows(self, "spectral") \o domain_rows(self, "rhythmic")

\* ---- the weight export on its own ----

\* seq without the feature f
Without(seq, f) == SelectSeq(seq, LAMBDA x : x # f)

\* Every feature name of the fixed configuration.
Features == {core_indices[i] : i \in DOMAIN core_indices}

\* The feature lists a PCAComputer may carry when it is fitted: those of
\* __init__, and the lists one edit of __init__ away from them (a feature
\* taken out of a domain, out of the core list, or out of both), which are the
\* configurations the count check of lines 819-820 is written for.
Configurations ==
    {PCAComputer(core_indices, domain_indices)} \cup
    {PCAComputer(IF c THEN Without(core_indices, f) ELSE core_indices,
                 IF d THEN [n \in DOMAIN domain_indices |->
                               Without(domain_indices[n], f)]
                      ELSE domain_indices) :
        f \in Features, c \in BOOLEAN, d \in BOOLEAN}

\* Lines 683-741: whether the fit raises. self.data holds the core columns
\* only, so a domain feature outside core_indices is a KeyError at line 726;
\* PCA(n_components=k) raises ValueError unless k <= min(n_samples, n_features).
fit_raises(self, n_tracks) ==
    \/ \E n \in DOMAIN self.domain_indices :
         \E i \in DOMAIN self.domain_indices[n] :
            \A j \in DOMAIN self.core_indices :
                self.core_indices[j] # self.domain_indices[n][i]
    \/ n_tracks < n_components
    \/ \E n \in DOMAIN self.domain_indices :
         Len(self.domain_indices[n]) < n_components

\* The discriminator a component name belongs to.
discriminator_of(component) ==
    IF component = "primary_d" THEN "primary_d"
    ELSE CHOOSE n \in DOMAIN domain_indices :
            \E i \in 0..(n_components - 1) : component_name(n, i) = component

\* A PCAComputer just constructed, an empty pca_transformations table, and a
\* library of n_tracks analysed rows.
InitWeights ==
    /\ fpc = "constructed"
    /\ arg \in [self : Configurations,
                n_tracks : {n_components - 1, n_components}]
    /\ ret = <<>>
    /\ rows = <<>>

\* pca_computer.fit_pca_on_library(config)
WeightsFit ==
    /\ fpc = "constructed"
    /\ IF fit_raises(arg.self, arg.n_tracks)
         THEN /\ fpc' = "fit_failed"
              /\ UNCHANGED arg
         ELSE /\ fpc' = "fitted"
              /\ arg' = [arg EXCEPT !.self = fit_pca_on_library(arg.self)]
    /\ UNCHANGED <<ret, rows>>

\* weights = pca_computer.extract_transformation_weights(): never raises.
WeightsExtract ==
    /\ fpc = "fitted"
    /\ ret' = extract_transformation_weights(arg.self)
    /\ fpc' = "extracted"
    /\ UNCHANGED <<arg, rows>>

\* insert_pca_transformations(weights): DELETE, INSERT, commit, then a
\* ValueError if the table's count differs from len(weights) (lines
\* 1558-1559); a database error before the commit leaves the table alone.
WeightsInsert(raises) ==
    /\ fpc = "extracted"
    /\ IF raises
         THEN /\ fpc' = "insert_failed"
              /\ UNCHANGED rows
         ELSE /\ rows' = ret
              /\ fpc' = IF Len(rows') # Len(ret) THEN "insert_failed"
                                                 ELSE "inserted"
    /\ UNCHANGED <<arg, ret>>

NextWeights ==
    \/ WeightsFit /\ UNCHANGED <<evars, pvars, cvars>>
    \/ WeightsExtract /\ UNCHANGED <<evars, pvars, cvars>>
    \/ \E raises \in BOOLEAN :
         WeightsInsert(raises) /\ UNCHANGED <<evars, pvars, cvars>>

\* ---- calibrate_resolution_controls ----

\* x_candidates = np.logspace(-2, 0.5, 50): an increasing geometric grid whose
\* ratio, 10^(2.5/49) = 1.1247, is below 3/2, so that the zones [2x, 3x] of
\* neighbouring candidates overlap. Here the ratio is 9/8 and the unit is
\* chosen to keep the candidates in the integers.
x_candidates ==
    [i \in 1..NumCandidates |-> (8 ^ (NumCandidates - i)) * (9 ^ (i - 1))]

\* target_resolutions, in insertion order, and their target percentages.
Resolutions == <<"microscope", "magnifying_glass", "binoculars">>

target_pct == [microscope |-> 1, magnifying_glass |-> 5, binoculars |-> 10]

\* The neighbour distances of one query point, as kneighbors returns them, are
\* given by how many of the search_k = LibrarySize neighbours lie at each of the
\* distances below (the two ends of the zone of each candidate); the other
\* neighbours lie at distance 0, as the query point itself does, and so in no
\* zone.
DistanceValues ==
    {2 * x_candidates[i] : i \in 1..NumCandidates} \cup
    {3 * x_candidates[i] : i \in 1..NumCandidates}

Histograms == [DistanceValues -> 0..MaxInZone]

\* The histograms in which every distance has the same number of neighbours.
UniformHistograms == {[v \in DistanceValues |-> c] : c \in {0, MaxInZone}}

\* One histogram per test query: any histogram for the first query, a uniform
\* one for each of the others (only the sum over the queries enters the mean
\* of line 905).
DistanceInputs ==
    {[q \in 1..NumQueries |-> IF q = 1 THEN h ELSE u[q]] :
        h \in Histograms, u \in [1..NumQueries -> UniformHistograms]}

\* The distances of a discriminator whose projected values are all equal:
\* every neighbour of every test query lies at distance 0.
ZeroDistances == [q \in 1..NumQueries |-> [v \in DistanceValues |-> 0]]

\* The NearestNeighbors model of one discriminator has been built and queried
\* (lines 851-854 and 897-899); nothing is calibrated yet.
InitCalibrate ==
    /\ fpc = "calibrating"
    /\ arg \in DistanceInputs
    /\ ret = <<>>
    /\ rows = <<>>

RECURSIVE SumOver(_, _)
SumOver(f, S) ==
    IF S = {} THEN 0
    ELSE LET x == CHOOSE y \in S : TRUE IN f[x] + SumOver(f, S \ {x})

Abs(n) == IF n < 0 THEN -n ELSE n

\* np.sum((distances >= inner_radius) & (distances <= outer_radius))
in_zone(distances, inner_radius, outer_radius) ==
    SumOver(distances, {d \in DOMAIN distances :
                            d >= inner_radius /\ d <= outer_radius})

\* abs(np.mean(percentages) - target_pct), multiplied by search_k times the
\* number of test queries to stay in the integers.
error(D, x, target) ==
    LET zones == [q \in DOMAIN D |-> in_zone(D[q], 2 * x, 3 * x)]
    IN  Abs(100 * SumOver(zones, DOMAIN D) - target * LibrarySize * Len(D))

\* The scan of lines 887-912 with 'error <= best_error': the last of several
\* equally good candidates wins.
RECURSIVE search_last_wins(_, _, _, _)
search_last_wins(D, target, i, best) ==
    IF i > Len(x_candidates) THEN best
    ELSE LET x == x_candidates[i]
             e == error(D, x, target)
         IN  search_last_wins(D, target, i + 1,
                              IF best = None \/ e <= best.error
                                THEN [best_x |-> x, error |-> e]
                                ELSE best)

\* Lines 887-912: the scan over the candidates; a candidate replaces the best
\* so far only when its error is strictly smaller.
RECURSIVE search(_, _, _, _)
search(D, target, i, best) ==
    IF i > Len(x_candidates) THEN best
    ELSE LET x == x_candidates[i]
             e == error(D, x, target)
         IN  search(D, target, i + 1,
                    IF best = None \/ e < best.error
                      THEN [best_x |-> x, error |-> e]
                      ELSE best)

\* Lines 914-920: the result recorded for one resolution and discriminator.
calibrate(D, resolution_name) ==
    LET best == search(D, target_pct[resolution_name], 1, None)
    IN  [best_x |-> best.best_x,
         best_inner |-> 2 * best.best_x,
         best_outer |-> 3 * best.best_x,
         error |-> best.error]

\* One pass of the loop of line 871 for the discriminator whose distances are
\* arg: the resolutions are visited in insertion order.
CalibrateResolution ==
    /\ fpc = "calibrating"
    /\ ret' = Append(ret, calibrate(arg, Resolutions[Len(ret) + 1]))
    /\ fpc' = IF Len(ret') = Len(Resolutions) THEN "calibrated"
                                              ELSE "calibrating"
    /\ UNCHANGED <<arg, rows>>

NextCalibrate == CalibrateResolution /\ UNCHANGED <<evars, pvars, cvars>>

\* calibrate_resolution_controls, the distances of discriminator d being DD[d].
calibrate_resolution_controls(DD) ==
    [r \in {Resolutions[i] : i \in DOMAIN Resolutions} |->
        [d \in {Discriminators[i] : i \in DOMAIN Discriminators} |->
            calibrate(DD[d], r)]]

\* ---- validate_pca_integrity ----

\* tolerance = 1e-10, in units of 1e-11
tolerance == 10

\* 'passed': match_pct > 99.9 with match_pct = (matches / total) * 100; in
\* floating point this is matches * 1000 > 999 * total for the totals used here.
column_passed(matches, total) == matches * 1000 > 999 * total

\* ---- fit, batch_update_pca_values and validate_pca_integrity on one library ----

\* batch_size = 1000 of batch_update_pca_values
update_batch_size == 1000

\* The identifier of row j (0-based) of PCAComputer.data: the rows come in the
\* order the SELECT of the fit returned them, here the identifiers descending.
identifier_of(j) == IntegrityRows - j

\* The row of PCAComputer.data holding identifier id.
row_index(id) == IntegrityRows - id

\* A fixed numbering of the projected columns.
column_index(c) ==
    CASE c = "primary_d" -> 0
      [] c = "tonal_pc1" -> 1 [] c = "tonal_pc2" -> 2 [] c = "tonal_pc3" -> 3
      [] c = "spectral_pc1" -> 4 [] c = "spectral_pc2" -> 5
      [] c = "spectral_pc3" -> 6
      [] c = "rhythmic_pc1" -> 7 [] c = "rhythmic_pc2" -> 8
      [] c = "rhythmic_pc3" -> 9

\* self.discriminators[...]['values'] after a fit: the projected value of row j
\* in column c, a finite double (here in units of 1e-11). What the fit computes
\* is determined by the snapshot; Seeds stands for different snapshots.
Seeds == {1, 1000}

values(seed, j, c) == seed * (16 * j + column_index(c))

\* A cell of a REAL column holding the double v: float() and the parameter
\* binding keep a finite double as it is; SQL NULL is Python's None.
real(v) == [v |-> v]

\* The projected columns of a row no PCA stage has written.
NullRow == [c \in Columns |-> None]

\* range(0, n_tracks, batch_size)
batch_starts(n_tracks) ==
    {i \in 0..(n_tracks - 1) : i % update_batch_size = 0}

\* Lines 1572-1589: row j is in the batch starting at i, and its tuple.
in_batch(j, i, n_tracks) ==
    i <= j /\ j < Min(i + update_batch_size, n_tracks)

update_values(seed, j) == [c \in Columns |-> real(values(seed, j, c))]

\* batch_update_pca_values that binds the tonal_pc2 and tonal_pc3 values in
\* each other's place.
update_pca_values_swapped(table, seed, n_tracks) ==
    [id \in DOMAIN table |->
        [c \in Columns |->
            real(values(seed, row_index(id),
                        CASE c = "tonal_pc2" -> "tonal_pc3"
                          [] c = "tonal_pc3" -> "tonal_pc2"
                          [] OTHER -> c))]]

\* batch_update_pca_values: for every batch, UPDATE ... WHERE identifier = ?
\* with the batch's tuples; the table after the commit at line 1609.
update_pca_values(table, seed, n_tracks) ==
    [id \in DOMAIN table |->
        LET j == row_index(id)
        IN  IF \E i \in batch_starts(n_tracks) :
                  in_batch(j, i, n_tracks) /\ identifier_of(j) = id
              THEN update_values(seed, j)
              ELSE table[id]]

\* Lines 962-987: the rows the validator reads (primary_d IS NOT NULL) merged
\* with the computed values on identifier.
merged(table, n_tracks) ==
    {id \in DOMAIN table :
        /\ table[id]["primary_d"] # None
        /\ row_index(id) \in 0..(n_tracks - 1)
        /\ identifier_of(row_index(id)) = id}

\* np.sum(diff < tolerance) for column c: a NULL cell reads as NaN and matches
\* nothing.
matches(table, seed, compared, c) ==
    Cardinality({id \in compared :
                    /\ table[id][c] # None
                    /\ Abs(table[id][c].v - values(seed, row_index(id), c))
                          < tolerance})

\* validate_pca_integrity: the per-column verdicts and whether it raises.
validate(table, seed, n_tracks) ==
    LET compared == merged(table, n_tracks)
        total == Cardinality(compared)
        passed == [c \in Columns |->
                      column_passed(matches(table, seed, compared, c), total)]
    IN  IF total = 0
          THEN [raised |-> "ValueError", total |-> 0, passed |-> passed]
          ELSE [raised |-> IF \E c \in Columns : ~passed[c]
                             THEN "ValueError" ELSE "",
                total |-> total,
                passed |-> passed]

\* Differences an intervening writer leaves in a cell (units of 1e-11), and how
\* many rows it touches.
Drifts == {9, 10, 11}

\* A PCAComputer and a music_analysis table of IntegrityRows rows.
InitIntegrity ==
    /\ fpc = "new"
    /\ arg \in [seed : Seeds, writes : {0}]
    /\ ret = None
    /\ rows = [id \in 1..IntegrityRows |-> NullRow]

\* fit_pca_on_library on the table.
IntegrityFit ==
    /\ fpc = "new"
    /\ fpc' = "fitted"
    /\ UNCHANGED <<arg, ret, rows>>

\* batch_update_pca_values(pca_computer)
IntegrityUpdate ==
    /\ fpc = "fitted"
    /\ rows' = update_pca_values(rows, arg.seed, IntegrityRows)
    /\ fpc' = "updated"
    /\ UNCHANGED <<arg, ret>>

\* Another writer changes column c of k rows by d between the update and the
\* validation.
InterveningWrite(k, c, d) ==
    /\ fpc = "updated"
    /\ arg.writes = 0
    /\ rows' = [id \in DOMAIN rows |->
                  IF id <= k
                    THEN [rows[id] EXCEPT ![c] = real(rows[id][c].v + d)]
                    ELSE rows[id]]
    /\ arg' = [arg EXCEPT !.writes = @ + 1]
    /\ UNCHANGED <<fpc, ret>>

\* Another writer deletes the projected values of every row.
InterveningClear ==
    /\ fpc = "updated"
    /\ arg.writes = 0
    /\ rows' = [id \in DOMAIN rows |-> NullRow]
    /\ arg' = [arg EXCEPT !.writes = @ + 1]
    /\ UNCHANGED <<fpc, ret>>

\* validate_pca_integrity(db_manager)
IntegrityValidate ==
    /\ fpc = "updated"
    /\ ret' = validate(rows, arg.seed, IntegrityRows)
    /\ fpc' = "validated"
    /\ UNCHANGED <<arg, rows>>

NextIntegrity ==
    \/ IntegrityFit /\ UNCHANGED <<evars, pvars, cvars>>
    \/ IntegrityUpdate /\ UNCHANGED <<evars, pvars, cvars>>
    \/ \E k \in 1..MaxChanged, c \in Columns, d \in Drifts :
          InterveningWrite(k, c, d) /\ UNCHANGED <<evars, pvars, cvars>>
    \/ InterveningClear /\ UNCHANGED <<evars, pvars, cvars>>
    \/ IntegrityValidate /\ UNCHANGED <<evars, pvars, cvars>>

-----------------------------------------------------------------------------
(* Part IV: main, the PCA stage *)

\* The variables of the extraction stage other than main_pc.
process_state ==
    <<tracks, max_runs, runs, resume, parallel_jobs, batch_size, batch_start,
      batch, collected, w, run_stats, music_analysis, processing_log, tx_rows,
      tx_log, fate, store_at_start, commit_count, lost>>

\* A database on which no PCA stage has run, and no PCAComputer.
InitPca ==
    /\ pca_transformations = [run |-> 0, count |-> 0]
    /\ projected = [run |-> 0, ids |-> {}]
    /\ pca_calibration_settings = {}
    /\ pca_data = {}
    /\ validation = None
    /\ pca_at_start = None
    /\ last_calibration = 0

\* What the three stores of the PCA stage hold.
Stores ==
    [weights |-> pca_transformations,
     values |-> projected,
     calibration |-> pca_calibration_settings]

\* Distances the calibration of a run may meet: nothing in any zone, or
\* MaxInZone neighbours in every zone, for every query and discriminator.
StageDistances ==
    {[d \in {Discriminators[i] : i \in DOMAIN Discriminators} |->
        [q \in 1..NumQueries |-> [v \in DistanceValues |-> c]]] :
     c \in {0, MaxInZone}}

\* What the validator may find when it reads the table back: no row in common
\* with the computed values, or StageRows rows of which some in one column
\* differ (the table is whatever the database holds at that moment).
StageValidations ==
    {[total |-> 0, column |-> "primary_d", matches |-> 0]} \cup
    {[total |-> StageRows, column |-> c, matches |-> StageRows - k] :
        c \in {"primary_d", "rhythmic_pc3"}, k \in 0..2}

\* Lines 2069-2070: create_pca_tables and add_pca_columns (DDL and a commit).
create_pca_tables(raises) ==
    /\ main_pc = "extracted"
    /\ pca_at_start' = Stores
    /\ main_pc' = IF raises THEN "failed" ELSE "fit"
    /\ UNCHANGED <<process_state, pca_transformations, projected,
                   pca_calibration_settings, pca_data, validation,
                   last_calibration>>

\* Lines 2073-2074: the fit reads the committed rows through a connection of its
\* own; PCA(n_components=3) rejects a library of fewer than three rows.
fit_library(raises) ==
    /\ main_pc = "fit"
    /\ IF raises \/ Cardinality(music_analysis) < n_components
         THEN /\ main_pc' = "failed"
              /\ UNCHANGED pca_data
         ELSE /\ main_pc' = "weights"
              /\ pca_data' = music_analysis
    /\ UNCHANGED <<process_state, pca_transformations, projected,
                   pca_calibration_settings, validation, pca_at_start,
                   last_calibration>>

\* Lines 2077-2078: extract_transformation_weights, then
\* insert_pca_transformations: DELETE, INSERT and commit; an error before the
\* commit leaves the table as it was (the connection is closed uncommitted).
insert_pca_transformations(raises) ==
    /\ main_pc = "weights"
    /\ LET weights == extract_transformation_weights(
                          fit_pca_on_library(PCAComputer(core_indices,
                                                         domain_indices)))
       IN IF raises
            THEN /\ main_pc' = "failed"
                 /\ UNCHANGED pca_transformations
            ELSE /\ main_pc' = "update"
                 /\ pca_transformations' = [run |-> runs, count |-> Len(weights)]
    /\ UNCHANGED <<process_state, projected, pca_calibration_settings,
                   pca_data, validation, pca_at_start, last_calibration>>

\* Line 2081: batch_update_pca_values writes the ten projected values of every
\* row the fit loaded, then commits.
batch_update_pca_values(raises) ==
    /\ main_pc = "update"
    /\ IF raises
         THEN /\ main_pc' = "failed"
              /\ UNCHANGED projected
         ELSE /\ main_pc' = "calibrate"
              /\ projected' = [run |-> runs, ids |-> pca_data]
    /\ UNCHANGED <<process_state, pca_transformations,
                   pca_calibration_settings, pca_data, validation,
                   pca_at_start, last_calibration>>

\* The rows insert_calibration_settings builds from calibration_results.
settings(calibration_results, run) ==
    {[resolution_level |-> r,
      discriminator |-> d,
      base_x |-> calibration_results[r][d].best_x,
      inner_radius |-> calibration_results[r][d].best_inner,
      outer_radius |-> calibration_results[r][d].best_outer,
      run |-> run] :
        r \in DOMAIN calibration_results,
        d \in {Discriminators[i] : i \in DOMAIN Discriminators}}

\* insert_calibration_settings without its DELETE.
insert_calibration_settings_keeping(DD, raises) ==
    /\ main_pc = "calibrate"
    /\ IF raises
         THEN /\ main_pc' = "failed"
              /\ UNCHANGED <<pca_calibration_settings, last_calibration>>
         ELSE /\ main_pc' = "validate"
              /\ pca_calibration_settings' =
                    pca_calibration_settings \cup
                    settings(calibrate_resolution_controls(DD), runs)
              /\ last_calibration' = runs
    /\ UNCHANGED <<process_state, pca_transformations, projected, pca_data,
                   validation, pca_at_start>>

\* Lines 2084-2085: calibrate_resolution_controls, then
\* insert_calibration_settings: DELETE, INSERT of the twelve rows and commit.
insert_calibration_settings(DD, raises) ==
    /\ main_pc = "calibrate"
    /\ IF raises
         THEN /\ main_pc' = "failed"
              /\ UNCHANGED <<pca_calibration_settings, last_calibration>>
         ELSE /\ main_pc' = "validate"
              /\ pca_calibration_settings' =
                    settings(calibrate_resolution_controls(DD), runs)
              /\ last_calibration' = runs
    /\ UNCHANGED <<process_state, pca_transformations, projected, pca_data,
                   validation, pca_at_start>>

\* Whether validate_pca_integrity raises on what it found: no common
\* identifier (line 989), or a column that did not pass (line 1053).
validation_raises(v) ==
    \/ v.total = 0
    \/ ~column_passed(v.matches, v.total)

\* validate_pca_integrity that logs a failed column and returns.
validate_pca_integrity_logging(v) ==
    /\ main_pc = "validate"
    /\ validation' = v
    /\ main_pc' = "complete"
    /\ UNCHANGED <<process_state, pca_transformations, projected,
                   pca_calibration_settings, pca_data, pca_at_start,
                   last_calibration>>

\* Lines 2088-2111: validate_pca_integrity; its ValueError is re-raised by main
\* as RuntimeError and ends the process with exit code 1, otherwise the stage
\* is reported complete.
validate_pca_integrity(v) ==
    /\ main_pc = "validate"
    /\ validation' = v
    /\ main_pc' = IF validation_raises(v) THEN "failed" ELSE "complete"
    /\ UNCHANGED <<process_state, pca_transformations, projected,
                   pca_calibration_settings, pca_data, pca_at_start,
                   last_calibration>>

NextMain ==
    \/ NextPipeline
    \/ \E raises \in BOOLEAN :
          create_pca_tables(raises) /\ UNCHANGED <<evars, fvars>>
    \/ \E raises \in BOOLEAN : fit_library(raises) /\ UNCHANGED <<evars, fvars>>
    \/ \E raises \in BOOLEAN :
          insert_pca_transformations(raises) /\ UNCHANGED <<evars, fvars>>
    \/ \E raises \in BOOLEAN :
          batch_update_pca_values(raises) /\ UNCHANGED <<evars, fvars>>
    \/ \E DD \in StageDistances, raises \in BOOLEAN :
          insert_calibration_settings(DD, raises) /\ UNCHANGED <<evars, fvars>>
    \/ \E v \in StageValidations :
          validate_pca_integrity(v) /\ UNCHANGED <<evars, fvars>>

\* No PCAComputer is being driven on its own.
InitDriver ==
    /\ fpc = "none"
    /\ arg = None
    /\ ret = None
    /\ rows = <<>>

-----------------------------------------------------------------------------
(* Part V: FeatureProcessor *)

\* ---- the values of a parsed JSON document ----

\* A float n + e * epsilon (epsilon = 1e-12 is FeatureProcessor.epsilon).
Num(n, e) == [t |-> "num", n |-> n, e |-> e]
Str(s) == [t |-> "str", s |-> s]
Null == [t |-> "null"]
\* A list, and a mapping as the sequence of its items in insertion order.
List(l) == [t |-> "list", l |-> l]
Dict(d) == [t |-> "dict", d |-> d]
Item(k, v) == [k |-> k, v |-> v]

\* json.dumps(value): a string that spells the value out.
json_dumps(value) == [t |-> "str", dumps |-> value]

\* isinstance(value, (int, float))
is_number(value) == value.t = "num"

\* ---- the trees flattened ----

\* The sequences over S of length at most n.
SeqsUpTo(S, n) == UNION {[1..k -> S] : k \in 0..n}

\* Scalars of a document: a tempo, minus epsilon, a string, null.
Scalars == {Num(120, 0), Num(0, -1), Str("s"), Null}

\* What a list may hold: a number, a string, a mapping, a list.
ListItems ==
    {Num(120, 0), Str("s"), Dict(<<Item("bpm", Num(120, 0))>>),
     List(<<Num(120, 0)>>)}

Lists == {List(l) : l \in SeqsUpTo(ListItems, MaxListLen)}

Leaves == Scalars \cup Lists

\* Keys of the nested mappings and of the document itself.
InnerKeys == {"bpm", "bpm_histogram_second_peak_weight"}
TopKeys == {"rhythm", "rhythm__bpm"}

\* A mapping of one item under the document.
InnerDicts == {Dict(<<Item(k, v)>>) : k \in InnerKeys, v \in Leaves}

\* The measurement trees: mappings of one or two items (with distinct keys)
\* whose values are leaves or nested mappings, and the empty mapping.
Trees ==
    {<<>>} \cup
    {<<Item(k, v)>> : k \in TopKeys, v \in Leaves \cup InnerDicts} \cup
    {<<Item(k[1], v1), Item(k[2], v2)>> :
        k \in {kk \in TopKeys \X TopKeys : kk[1] # kk[2]},
        v1 \in Leaves \cup InnerDicts, v2 \in Leaves \cup InnerDicts}

\* ---- flatten_essentia_features ----

\* _flatten_recursive with the indexed keys of a numeric list counted from 1.
RECURSIVE flatten_recursive_from_one(_, _)
flatten_recursive_from_one(data, prefix) ==
    IF Len(data) = 0 THEN <<>>
    ELSE LET key == Head(data).k
             value == Head(data).v
             new_key == prefix \o "__" \o key
         IN  (IF value.t = "dict"
                THEN flatten_recursive_from_one(value.d, new_key)
              ELSE IF value.t = "list"
                THEN IF Len(value.l) > 0 /\ is_number(value.l[1])
                       THEN [i \in 1..Len(value.l) |->
                               Item(new_key \o "__" \o ToString(i),
                                    value.l[i])]
                       ELSE <<Item(new_key, json_dumps(value))>>
              ELSE <<Item(new_key, value)>>)
             \o flatten_recursive_from_one(Tail(data), prefix)

\* _flatten_recursive(data, result, prefix): the assignments result[k] = v it
\* makes, in order; data is the sequence of the mapping's items.
RECURSIVE flatten_recursive(_, _)
flatten_recursive(data, prefix) ==
    IF Len(data) = 0 THEN <<>>
    ELSE LET key == Head(data).k
             value == Head(data).v
             new_key == prefix \o "__" \o key
         IN  (IF value.t = "dict"
                THEN flatten_recursive(value.d, new_key)
              ELSE IF value.t = "list"
                THEN IF Len(value.l) > 0 /\ is_number(value.l[1])
                       THEN [i \in 1..Len(value.l) |->
                               Item(new_key \o "__" \o ToString(i - 1),
                                    value.l[i])]
                       ELSE <<Item(new_key, json_dumps(value))>>
              ELSE <<Item(new_key, value)>>)
             \o flatten_recursive(Tail(data), prefix)

\* The dict a sequence of assignments leaves: a later assignment to a key
\* replaces an earlier one.
assigned(writes) ==
    [k \in {writes[i].k : i \in DOMAIN writes} |->
        LET i == CHOOSE i \in DOMAIN writes :
                    /\ writes[i].k = k
                    /\ \A j \in DOMAIN writes : writes[j].k = k => j <= i
        IN  writes[i].v]

flatten_essentia_features(features) ==
    assigned(flatten_recursive(features, "essentia"))

\* ---- extract_indices ----

\* The mapping of _extract_direct_indices: index name to flattened key.
direct_mapping ==
    [bpm               |-> "essentia__rhythm__bpm",
     danceability      |-> "essentia__rhythm__danceability",
     onset_rate        |-> "essentia__rhythm__onset_rate",
     beat_punch        |-> "essentia__rhythm__beats_loudness__mean",
     fifths_strength   |-> "essentia__tonal__tuning_diatonic_strength",
     chord_strength    |-> "essentia__tonal__chords_strength__mean",
     chord_change_rate |-> "essentia__tonal__chords_changes_rate",
     crest             |-> "essentia__tonal__hpcp_crest__mean",
     entropy           |-> "essentia__tonal__hpcp_entropy__mean",
     spectral_centroid |-> "essentia__lowlevel__spectral_centroid__mean",
     spectral_rolloff  |-> "essentia__lowlevel__spectral_rolloff__mean",
     spectral_kurtosis |-> "essentia__lowlevel__spectral_kurtosis__mean",
     spectral_energy   |-> "essentia__lowlevel__spectral_energy__mean",
     spectral_flatness |-> "essentia__lowlevel__barkbands_flatness_db__mean"]

\* The names _calculate_derived_indices assigns.
derived_names ==
    {"opb", "tonal_clarity", "pulse_cohesion", "tuning_purity", "sub_drive",
     "air_sizzle", "spectral_slope"}

\* features.get(feature_key, 0.0): the default only when the key is absent.
get(features, feature_key) ==
    IF feature_key \in DOMAIN features THEN features[feature_key]
                                       ELSE Num(0, 0)

_extract_direct_indices(features) ==
    [index_name \in DOMAIN direct_mapping |->
        get(features, direct_mapping[index_name])]

\* The float a formula of _calculate_derived_indices yields from its operands.
computed(operands) == [t |-> "num", of |-> operands]

\* _calculate_derived_indices: the exception it ends with ("" when none) and
\* the indices it returns. Arithmetic and max, min, abs on a value that is no
\* number are a TypeError; of the divisors only second_peak + epsilon can be
\* zero (the others are at least epsilon).
_calculate_derived_indices(indices, features) ==
    LET key_strengths ==
            <<get(features, "essentia__tonal__key_edma__strength"),
              get(features, "essentia__tonal__key_krumhansl__strength"),
              get(features, "essentia__tonal__key_temperley__strength")>>
        first_peak ==
            get(features, "essentia__rhythm__bpm_histogram_first_peak_weight")
        second_peak ==
            get(features, "essentia__rhythm__bpm_histogram_second_peak_weight")
        deviation ==
            get(features, "essentia__tonal__tuning_equal_tempered_deviation")
        centroid == indices["spectral_centroid"]
        rolloff == indices["spectral_rolloff"]
        comparable ==
            \/ \A i \in 1..3 : is_number(key_strengths[i])
            \/ \A i \in 1..3 : key_strengths[i].t = "str"
        raised ==
            IF ~is_number(indices["bpm"]) \/ ~is_number(indices["onset_rate"])
              THEN "TypeError"
            ELSE IF ~comparable THEN "TypeError"
            ELSE IF ~is_number(first_peak) \/ ~is_number(second_peak)
              THEN "TypeError"
            ELSE IF second_peak.n = 0 /\ second_peak.e + 1 = 0
              THEN "ZeroDivisionError"
            ELSE IF ~is_number(deviation) THEN "TypeError"
            ELSE IF ~is_number(centroid) \/ ~is_number(rolloff)
              THEN "TypeError"
            ELSE ""
        derived ==
            [opb |-> computed(<<indices["onset_rate"], indices["bpm"]>>),
             tonal_clarity |->
                 IF is_number(key_strengths[1]) THEN computed(key_strengths)
                                                ELSE key_strengths[1],
             pulse_cohesion |-> computed(<<first_peak, second_peak>>),
             tuning_purity |-> computed(<<deviation>>),
             sub_drive |-> computed(<<centroid>>),
             air_sizzle |-> computed(<<centroid, rolloff>>),
             spectral_slope |-> computed(<<centroid, rolloff>>)]
    IN  [raised |-> raised, derived |-> derived]

\* extract_indices: the direct indices, updated with the derived ones.
extract_indices(flattened_features) ==
    LET indices == _extract_direct_indices(flattened_features)
        d == _calculate_derived_indices(indices, flattened_features)
    IN  IF d.raised # ""
          THEN [raised |-> d.raised, indices |-> <<>>]
          ELSE [raised |-> "",
                indices |-> [n \in DOMAIN indices \cup derived_names |->
                                IF n \in DOMAIN indices THEN indices[n]
                                                        ELSE d.derived[n]]]

\* ---- a document through the FeatureProcessor ----

\* json.loads has returned the mapping arg.
InitFeatures ==
    /\ fpc = "parsed"
    /\ arg \in Trees
    /\ ret = <<>>
    /\ rows = <<>>

\* flattened_features = flatten_essentia_features(features)
Flatten ==
    /\ fpc = "parsed"
    /\ ret' = flatten_essentia_features(arg)
    /\ fpc' = "flattened"
    /\ UNCHANGED <<arg, rows>>

\* indices = extract_indices(flattened_features)
ExtractIndices ==
    /\ fpc = "flattened"
    /\ LET r == extract_indices(ret)
       IN  /\ rows' = r.indices
           /\ fpc' = IF r.raised = "" THEN "indices" ELSE r.raised
    /\ UNCHANGED <<arg, ret>>

NextFeatures ==
    \/ Flatten /\ UNCHANGED <<evars, pvars, cvars>>
    \/ ExtractIndices /\ UNCHANGED <<evars, pvars, cvars>>

-----------------------------------------------------------------------------
(* Part VI: MusicVAE checkpoints (services/musicVAE.py, ml/music_vae.py) *)

\* ---- Python values of a checkpoint ----

PyInt(n) == [py |-> "int", v |-> n]
PyList(l) == [py |-> "list", v |-> l]
PyDict(d) == [py |-> "dict", v |-> d]
\* A fitted StandardScaler over n features.
PyScaler(n) == [py |-> "StandardScaler", v |-> n]
\* A state dict: parameter name to tensor shape.
PyState(s) == [py |-> "state_dict", v |-> s]

\* d.get(k), d a dict given as a function of its keys
dict_get(d, k) == IF k \in DOMAIN d THEN d[k] ELSE None

\* d.update(other)
dict_update(d, other) ==
    [k \in DOMAIN d \cup DOMAIN other |->
        IF k \in DOMAIN other THEN other[k] ELSE d[k]]

\* bool(value) of None, a list or a dict
py_bool(value) ==
    CASE value = None -> FALSE
      [] value.py = "list" -> Len(value.v) > 0
      [] value.py = "dict" -> DOMAIN value.v # {}
      [] OTHER -> TRUE

\* ---- the parameters of a MusicVAE ----

default_latent_dim == 8
default_hidden_dims == <<64, 32>>

\* The layer widths of nn.Sequential built over dims, starting from first: each
\* hidden layer is Linear, activation, Dropout, so the k-th Linear has index
\* 3 * (k - 1) whatever the activation.
linear_shapes(name, first, dims) ==
    [k \in 1..Len(dims) |->
        [key |-> name \o "." \o ToString(3 * (k - 1)),
         out |-> dims[k],
         in  |-> IF k = 1 THEN first ELSE dims[k - 1]]]

reversed(s) == [k \in 1..Len(s) |-> s[Len(s) + 1 - k]]

\* state_dict() of a MusicVAE: every Linear's weight and bias with their
\* shapes. mu and logvar are the attribute names of the two latent
\* projections: fc_mu and fc_logvar in services/musicVAE.py, latent_mu and
\* latent_logvar in ml/music_vae.py.
state_dict(mu, logvar, input_dim, latent_dim, hidden_dims) ==
    LET enc == linear_shapes("encoder", input_dim, hidden_dims)
        dec == linear_shapes("decoder", latent_dim, reversed(hidden_dims))
        h == hidden_dims[Len(hidden_dims)]
        layers ==
            enc \o dec \o
            <<[key |-> "decoder." \o ToString(3 * Len(hidden_dims)),
               out |-> input_dim, in |-> hidden_dims[1]],
              [key |-> mu, out |-> latent_dim, in |-> h],
              [key |-> logvar, out |-> latent_dim, in |-> h]>>
        keys == {layers[i].key \o ".weight" : i \in DOMAIN layers} \cup
                {layers[i].key \o ".bias" : i \in DOMAIN layers}
    IN  [k \in keys |->
            LET i == CHOOSE i \in DOMAIN layers :
                        k \in {layers[i].key \o ".weight",
                               layers[i].key \o ".bias"}
            IN  IF k = layers[i].key \o ".weight"
                  THEN <<layers[i].out, layers[i].in>>
                  ELSE <<layers[i].out>>]

\* The trainer's model, services/musicVAE.py MusicVAE(input_dim, latent_dim,
\* hidden_dims, beta).
TrainerVAE(input_dim, latent_dim, hidden_dims) ==
    [input_dim |-> input_dim, latent_dim |-> latent_dim,
     hidden_dims |-> hidden_dims,
     state |-> state_dict("fc_mu", "fc_logvar", input_dim, latent_dim,
                          hidden_dims)]

\* save_model(model, model_path, metadata): the checkpoint written.
save_model(model, metadata) ==
    dict_update([model_state_dict |-> PyState(model.state),
                 input_dim |-> PyInt(model.input_dim),
                 latent_dim |-> PyInt(model.latent_dim),
                 beta |-> PyInt(4)],
                metadata)

\* ---- MusicVAEInference ----

default_input_dim == 18

\* The parameters MusicVAE.__init__ of ml/music_vae.py accepts.
InitParameters == {"input_dim", "latent_dim", "hidden_dims", "beta", "dropout"}

\* MusicVAEInference.__init__
NewInference ==
    [is_loaded |-> FALSE, scaler |-> None, feature_names |-> None,
     model |-> None,
     last |-> [op |-> "__init__", n |-> 0, raised |-> "", len |-> 0]]

\* Lines 138-149 with the fc_* names left as they are.
remap_state_unchanged(model_state) == model_state

\* Lines 138-149: a state dict that has fc_mu.weight and no latent_mu.weight
\* gets its fc_* entries renamed to latent_*.
remap_state(model_state) ==
    IF "latent_mu.weight" \notin DOMAIN model_state
         /\ "fc_mu.weight" \in DOMAIN model_state
      THEN LET rename_map == [fc_mu         |-> "latent_mu",
                              fc_logvar     |-> "latent_logvar"]
               renamed(k) ==
                   CASE k = "fc_mu.weight"     -> "latent_mu.weight"
                     [] k = "fc_mu.bias"       -> "latent_mu.bias"
                     [] k = "fc_logvar.weight" -> "latent_logvar.weight"
                     [] k = "fc_logvar.bias"   -> "latent_logvar.bias"
                     [] OTHER                  -> k
           IN  [k2 \in {renamed(k) : k \in DOMAIN model_state} |->
                   model_state[CHOOSE k \in DOMAIN model_state :
                                   renamed(k) = k2]]
      ELSE model_state

\* The outcome load_model returns.
Loaded(self, status) ==
    [self EXCEPT
        !.last = [op |-> "load_model", n |-> 0, raised |-> status, len |-> 0]]

\* load_model(model_path), checkpoint being what torch.load returns: the
\* object afterwards, its field last telling 'success' (raised = "") or the
\* exception turned into status 'error'. Assignments made before an exception
\* stay.
load_model(self, checkpoint) ==
    LET model_state == remap_state(checkpoint["model_state_dict"].v)
        scaler_obj == dict_get(checkpoint, "scaler")
        mean == dict_get(checkpoint, "scaler_mean")
        scale == dict_get(checkpoint, "scaler_scale")
        scaler == IF scaler_obj # None THEN scaler_obj
                                       ELSE PyScaler(Len(mean.v))
        names == IF py_bool(dict_get(checkpoint, "core_features"))
                   THEN dict_get(checkpoint, "core_features")
                   ELSE dict_get(checkpoint, "feature_names")
        given == dict_get(checkpoint, "model_config")
        built ==
            [input_dim |->
                 IF "input_dim" \in DOMAIN checkpoint
                   THEN checkpoint["input_dim"] ELSE PyInt(Len(names.v)),
             latent_dim |->
                 IF "latent_dim" \in DOMAIN checkpoint
                   THEN checkpoint["latent_dim"]
                   ELSE PyInt(default_latent_dim),
             hidden_dims |->
                 IF py_bool(dict_get(checkpoint, "hidden_dims"))
                   THEN checkpoint["hidden_dims"]
                   ELSE PyList(default_hidden_dims)]
        config0 == IF py_bool(given) THEN given.v ELSE built
        config == IF py_bool(dict_get(config0, "hidden_dims"))
                    THEN config0
                    ELSE dict_update(config0,
                            [hidden_dims |-> PyList(default_hidden_dims)])
        input_dim == IF "input_dim" \in DOMAIN config
                       THEN config["input_dim"].v ELSE default_input_dim
        latent_dim == IF "latent_dim" \in DOMAIN config
                        THEN config["latent_dim"].v ELSE default_latent_dim
        model == [input_dim |-> input_dim, latent_dim |-> latent_dim]
        expected == state_dict("latent_mu", "latent_logvar", input_dim,
                               latent_dim, config["hidden_dims"].v)
        with_scaler == [self EXCEPT !.scaler = scaler]
        with_names == [with_scaler EXCEPT !.feature_names = names]
        with_model == [with_names EXCEPT !.model = model]
    IN  IF scaler_obj = None /\ (mean = None \/ scale = None)
          THEN Loaded(self, "KeyError")
        ELSE IF ~py_bool(names)
          THEN Loaded(with_names, "KeyError")
        ELSE IF ~(DOMAIN config \subseteq InitParameters)
          THEN Loaded(with_names, "TypeError")
        ELSE IF model_state # expected
          THEN Loaded(with_model, "RuntimeError")
        ELSE Loaded([with_model EXCEPT !.is_loaded = TRUE], "")

\* What a call leaves in last: the length n of the list passed, the exception
\* raised ("" when none) and the length of the list returned.
Called(self, op, n, raised, len) ==
    [self EXCEPT !.last = [op |-> op, n |-> n, raised |-> raised, len |-> len]]

\* encode(features), features a list of n floats: preprocess_features checks
\* the length against feature_names, the scaler checks it against the number
\* of features it was fitted on, the first Linear against input_dim.
encode(self, n) ==
    IF ~self.is_loaded THEN Called(self, "encode", n, "RuntimeError", 0)
    ELSE IF n # Len(self.feature_names.v)
      THEN Called(self, "encode", n, "ValueError", 0)
    ELSE IF n # self.scaler.v THEN Called(self, "encode", n, "ValueError", 0)
    ELSE IF n # self.model.input_dim
      THEN Called(self, "encode", n, "RuntimeError", 0)
    ELSE Called(self, "encode", n, "", self.model.latent_dim)

\* decode(latent), latent a list of n floats: the length is checked against
\* model.latent_dim; the decoder returns input_dim values, which
\* inverse_transform multiplies by scale_ elementwise.
decode(self, n) ==
    IF ~self.is_loaded THEN Called(self, "decode", n, "RuntimeError", 0)
    ELSE IF n # self.model.latent_dim
      THEN Called(self, "decode", n, "ValueError", 0)
    ELSE IF self.model.input_dim # self.scaler.v
      THEN Called(self, "decode", n, "ValueError", 0)
    ELSE Called(self, "decode", n, "", self.model.input_dim)

\* ---- a trainer and an inference object ----

FeatureNames == <<"bpm", "danceability", "onset_rate">>

\* Inputs and latent vectors have two or three values.
VaeDims == {2, 3}

TrainerModels ==
    {TrainerVAE(i, l, h) :
        i \in VaeDims, l \in VaeDims, h \in {default_hidden_dims, <<4>>}}

\* The model_config the trainer puts in the metadata of model.
config_of(model) ==
    PyDict([input_dim |-> PyInt(model.input_dim),
            latent_dim |-> PyInt(model.latent_dim),
            hidden_dims |-> PyList(model.hidden_dims),
            beta |-> PyInt(4),
            dropout |-> PyInt(0)])

\* The metadata handed to save_model with model: scaler mean and scale (two
\* lists of the same length), feature names under either key, a model
\* configuration (that of the model, or one with hidden_dims None), any of
\* them possibly left out.
Metadata(model) ==
    {dict_update(dict_update(scaler, names), config) :
        scaler \in {<<>>} \cup
            {[scaler_mean |-> PyList([k \in 1..n |-> 0]),
              scaler_scale |-> PyList([k \in 1..n |-> 1])] : n \in VaeDims},
        names \in {<<>>} \cup
            {[feature_names |-> PyList(SubSeq(FeatureNames, 1, n))] :
                n \in VaeDims} \cup
            {[core_features |-> PyList(SubSeq(FeatureNames, 1, n))] :
                n \in VaeDims},
        config \in {<<>>,
                    [model_config |-> config_of(model)],
                    [model_config |->
                        PyDict(dict_update(config_of(model).v,
                                           [hidden_dims |-> None]))],
                    [hidden_dims |-> PyList(model.hidden_dims)]}}

\* A trained model and the metadata it is about to be saved with; no
\* checkpoint on disk; a new MusicVAEInference.
InitVae ==
    /\ fpc = "trained"
    /\ \E model \in TrainerModels :
         \E metadata \in Metadata(model) :
            arg = [model |-> model, metadata |-> metadata]
    /\ rows = <<>>
    /\ ret = NewInference

\* save_model(model, model_path, metadata)
SaveModel ==
    /\ fpc = "trained"
    /\ rows' = save_model(arg.model, arg.metadata)
    /\ fpc' = "saved"
    /\ UNCHANGED <<arg, ret>>

\* inference.load_model(model_path)
LoadModel ==
    /\ fpc = "saved"
    /\ ret' = load_model(ret, rows)
    /\ UNCHANGED <<fpc, arg, rows>>

\* inference.encode(features)
Encode(n) ==
    /\ ret' = encode(ret, n)
    /\ UNCHANGED <<fpc, arg, rows>>

\* inference.decode(latent)
Decode(n) ==
    /\ ret' = decode(ret, n)
    /\ UNCHANGED <<fpc, arg, rows>>

NextVae ==
    \/ SaveModel /\ UNCHANGED <<evars, pvars, cvars>>
    \/ LoadModel /\ UNCHANGED <<evars, pvars, cvars>>
    \/ \E n \in VaeDims : Encode(n) /\ UNCHANGED <<evars, pvars, cvars>>
    \/ \E n \in VaeDims : Decode(n) /\ UNCHANGED <<evars, pvars, cvars>>

-----------------------------------------------------------------------------
(* Part VII: calibrate_embeddings.choose_radii *)

\* Distances are counted in units of 1e-6 and radii in hundredths of that
\* unit, the grain of a linear interpolation between two neighbours at an
\* integer percentage.
RadiusScale == 100

\* MIN_EFFECTIVE_RADIUS = 1e-5
MIN_EFFECTIVE_RADIUS == 1000

\* DEFAULT_VAE_FALLBACK_OUTER = 0.5
DEFAULT_VAE_FALLBACK_OUTER == 50000000

\* FALLBACK_PERCENTILE_PAIRS, in percent
FALLBACK_PERCENTILE_PAIRS == <<<<20, 60>>, <<30, 80>>, <<40, 90>>, <<50, 95>>>>

\* The distances of a sample: zero, below, at and above the minimum radius.
SampleDistances == {0, 4, 10, 30}

\* Non-empty samples of at most MaxSample distances, in the order collected.
Samples == UNION {[1..n -> SampleDistances] : n \in 1..MaxSample}

\* The percentile pairs of a request, in percent: DEFAULT_RESOLUTION_PERCENTILES,
\* and overrides from --inner-percentile / --outer-percentile, one of them
\* with the inner percentile above the outer.
RequestedPairs == {<<2, 8>>, <<5, 20>>, <<15, 40>>, <<60, 20>>, <<0, 100>>}

Modes == {"vae", "pca"}

\* The elements of s in ascending order, as np.percentile and np.median
\* arrange them.
RECURSIVE np_sort(_)
np_sort(s) ==
    IF Len(s) <= 1 THEN s
    ELSE LET rest == np_sort(Tail(s))
             below == SelectSeq(rest, LAMBDA x : x <= Head(s))
             above == SelectSeq(rest, LAMBDA x : x > Head(s))
         IN  below \o <<Head(s)>> \o above

\* np.percentile(vals, q) with the default linear interpolation: the virtual
\* index q/100 * (n - 1) lies between two neighbours of the sorted sample.
np_percentile(vals, q) ==
    LET a == np_sort(vals)
        virtual == q * (Len(a) - 1)
        lo == virtual \div 100 + 1
        hi == Min(lo + 1, Len(a))
        frac == virtual % 100
    IN  RadiusScale * a[lo] + frac * (a[hi] - a[lo])

\* np.median(vals)
np_median(vals) ==
    LET a == np_sort(vals)
        n == Len(a)
    IN  IF n % 2 = 1 THEN RadiusScale * a[(n + 1) \div 2]
        ELSE (RadiusScale \div 2) * (a[n \div 2] + a[n \div 2 + 1])

\* np.max(vals)
np_max(vals) == RadiusScale * np_sort(vals)[Len(vals)]

\* percentile_pair returning the two percentiles in the order asked for.
percentile_pair_unswapped(vals, pair) ==
    [inner |-> np_percentile(vals, pair[1]),
     outer |-> np_percentile(vals, pair[2])]

\* percentile_pair (lines 242-248): the two percentiles, swapped when the
\* outer is below the inner.
percentile_pair(vals, pair) ==
    LET inner_val == np_percentile(vals, pair[1])
        outer_val == np_percentile(vals, pair[2])
    IN  IF outer_val < inner_val
          THEN [inner |-> outer_val, outer |-> inner_val]
          ELSE [inner |-> inner_val, outer |-> outer_val]

\* Lines 252-258: the loop over FALLBACK_PERCENTILE_PAIRS from pair i on; the
\* radii are overwritten at every iteration, chosen_pair and used_fallback
\* only by the pair the loop breaks at.
RECURSIVE fallback_loop(_, _, _)
fallback_loop(vals, i, s) ==
    IF i > Len(FALLBACK_PERCENTILE_PAIRS) THEN s
    ELSE LET r == percentile_pair(vals, FALLBACK_PERCENTILE_PAIRS[i])
         IN  IF r.outer >= MIN_EFFECTIVE_RADIUS
               THEN [inner_radius |-> r.inner, outer_radius |-> r.outer,
                     chosen_pair |-> [kind |-> "percentiles",
                                      pair |-> FALLBACK_PERCENTILE_PAIRS[i]],
                     used_fallback |-> TRUE]
               ELSE fallback_loop(vals, i + 1,
                        [s EXCEPT !.inner_radius = r.inner,
                                  !.outer_radius = r.outer])

\* choose_radii(values, inner_pct, outer_pct, mode)
choose_radii(vals, inner_pct, outer_pct, mode) ==
    LET requested == percentile_pair(vals, <<inner_pct, outer_pct>>)
        s0 == [inner_radius |-> requested.inner,
               outer_radius |-> requested.outer,
               chosen_pair |-> [kind |-> "percentiles",
                                pair |-> <<inner_pct, outer_pct>>],
               used_fallback |-> FALSE]
        s1 == IF s0.outer_radius < MIN_EFFECTIVE_RADIUS
                THEN fallback_loop(vals, 1, s0) ELSE s0
        s2 == IF s1.outer_radius < MIN_EFFECTIVE_RADIUS
                THEN [inner_radius |-> np_median(vals),
                      outer_radius |-> np_max(vals),
                      chosen_pair |-> [kind |-> "median_max"],
                      used_fallback |-> TRUE]
                ELSE s1
    IN  IF s2.outer_radius < MIN_EFFECTIVE_RADIUS
          THEN IF mode = "vae"
                 THEN [inner_radius |-> 0,
                       outer_radius |-> DEFAULT_VAE_FALLBACK_OUTER,
                       chosen_pair |-> [kind |-> "fallback"],
                       used_fallback |-> TRUE]
                 ELSE [s2 EXCEPT !.outer_radius = MIN_EFFECTIVE_RADIUS]
          ELSE s2

\* build_calibration_records has a non-empty sample of one discriminator and the
\* percentile pair of one resolution in hand.
InitRadii ==
    /\ fpc = "sampled"
    /\ \E vals \in Samples, pair \in RequestedPairs, mode \in Modes :
          arg = [distances |-> vals, inner_pct |-> pair[1],
                 outer_pct |-> pair[2], mode |-> mode]
    /\ ret = <<>>
    /\ rows = <<>>

\* Line 299: the call of choose_radii
ChooseRadii ==
    /\ fpc = "sampled"
    /\ ret' = choose_radii(arg.distances, arg.inner_pct, arg.outer_pct,
                           arg.mode)
    /\ fpc' = "chosen"
    /\ UNCHANGED <<arg, rows>>

NextRadii == ChooseRadii /\ UNCHANGED <<evars, pvars, cvars>>

-----------------------------------------------------------------------------
(* Specifications *)

Init == InitExtract /\ InitPipeline(0, 0, 0) /\ InitPca /\ InitDriver

\* One EssentiaProcessor serving extract_features calls.
Spec == Init /\ [][NextExtract]_vars

\* The same calls, with the returns after a silence report observed.
RepeatSpec == Init /\ [][NextRepeat]_vars

PipelineInit ==
    InitExtract /\ InitPipeline(NumTracks, 1, 0) /\ InitPca /\ InitDriver

\* One run of the pipeline on a new output database.
PipelineSpec == PipelineInit /\ [][NextPipeline]_vars

ResumeInit ==
    InitExtract /\ InitPipeline(ResumeTracks, MaxRuns, 0) /\ InitPca /\ InitDriver

\* Successive runs of the pipeline against the same output database, any of
\* which may be killed.
ResumeSpec == ResumeInit /\ [][NextPipeline]_vars

MainInit ==
    /\ InitExtract
    /\ InitPipeline(MainTracks, 1, MainLibrary)
    /\ InitPca
    /\ InitDriver

\* One run of main, extraction followed by the PCA stage, on a database that
\* holds an earlier import.
MainSpec == MainInit /\ [][NextMain]_vars

RerunInit ==
    /\ InitExtract
    /\ InitPipeline(1, MainRuns, MainLibrary)
    /\ InitPca
    /\ InitDriver

\* Successive runs of main against the same database, one track selected.
RerunSpec == RerunInit /\ [][NextMain]_vars

IntegrityInit ==
    /\ InitExtract
    /\ InitPipeline(0, 0, 0)
    /\ InitPca
    /\ InitIntegrity

\* A fit, the update of the projected values and the validation, with or
\* without a write by another process in between.
IntegritySpec == IntegrityInit /\ [][NextIntegrity]_vars

WeightsInit ==
    /\ InitExtract
    /\ InitPipeline(0, 0, 0)
    /\ InitPca
    /\ InitWeights

CalibrateInit ==
    /\ InitExtract
    /\ InitPipeline(0, 0, 0)
    /\ InitPca
    /\ InitCalibrate

\* The calibration of one discriminator over every distance input.
CalibrateSpec == CalibrateInit /\ [][NextCalibrate]_vars

FeatureInit ==
    /\ InitExtract
    /\ InitPipeline(0, 0, 0)
    /\ InitPca
    /\ InitFeatures

\* One parsed document flattened and its indices derived.
FeatureSpec == FeatureInit /\ [][NextFeatures]_vars

VaeInit ==
    /\ InitExtract
    /\ InitPipeline(0, 0, 0)
    /\ InitPca
    /\ InitVae

\* A checkpoint saved by the trainer and used by one MusicVAEInference.
VaeSpec == VaeInit /\ [][NextVae]_vars

RadiiInit ==
    /\ InitExtract
    /\ InitPipeline(0, 0, 0)
    /\ InitPca
    /\ InitRadii

\* One call of choose_radii on a sample of distances.
RadiiSpec == RadiiInit /\ [][NextRadii]_vars

\* The weight export of one PCAComputer.
WeightsSpec == WeightsInit /\ [][NextWeights]_vars

-----------------------------------------------------------------------------
(* Properties of extract_features, checked under Spec *)

Returned == pc = "done"

SilenceReported ==
    /\ last.kind = "exit"
    /\ last.returncode # 0
    /\ last.stderr.silent

ExtractorEvents == SelectSeq(events, LAMBDA e : e.tool = "extractor")
AmplifyEvents   == SelectSeq(events, LAMBDA e : e.tool = "ffmpeg")

\* C1: when the call's last extractor run exited non-zero reporting silence (the
\* track was not amplifiable, amplification failed, or the amplified retry was
\* silent too), the call returns the synthetic all-zero tree with no error; no
\* essentia_failed result follows a silence report.
C1_SilenceEndsInSyntheticSuccess ==
    /\ (Returned /\ SilenceReported) =>
          result = [features |-> _generate_silent_features(track_path),
                    error |-> None]
    /\ (Returned /\ result.error # None /\ result.error.type = "essentia_failed")
          => ~SilenceReported

\* C1 witness: the amplified retry reported silence again and the call returned
\* the synthetic tree.
C1_Witness ==
    /\ Returned
    /\ SilenceReported
    /\ tried_amplify
    /\ result.features = _generate_silent_features(track_path)
    /\ result.error = None

\* C2 (as claimed): whenever extract_features has returned, no temporary file
\* created by the call is left on disk.
C2_AllTempFilesRemoved == Returned => files = {}

\* C3: one call starts the extractor at most twice and the amplification tool at
\* most once; a second extractor run comes only after a successful amplification
\* and reads the amplified copy.
C3_BoundedInvocations ==
    /\ Len(ExtractorEvents) <= 2
    /\ Len(AmplifyEvents) <= 1
    /\ Len(ExtractorEvents) = 2 =>
          /\ tried_amplify
          /\ Len(events) = 3
          /\ events[1].tool = "extractor" /\ events[1].input = SrcPath(track_path)
          /\ events[2].tool = "ffmpeg"
          /\ events[3].tool = "extractor" /\ events[3].input = amplified_path
          /\ amplified_path.suffix = ".wav"

\* C3 witness: a call that returned after two extractor runs and one
\* amplification.
C3_Witness ==
    /\ Returned
    /\ Len(ExtractorEvents) = 2
    /\ Len(AmplifyEvents) = 1

\* C4 (as claimed): every external process started by extract_features, the
\* extractor and the amplification tool alike, runs under the configured timeout.
C4_EveryInvocationHasTimeout ==
    proc.tool # "none" => proc.timeout = essentia_timeout

\* C5 (as claimed): a returned call gives either a tree and no error, or no tree
\* and an error of one of the five types; never both, never neither.
C5_TreeXorTypedError ==
    Returned =>
        \/ result.features # None /\ result.error = None
        \/ /\ result.features = None
           /\ result.error # None
           /\ result.error.type \in ErrorTypes

\* C6: with validation enabled and the path missing, the call fails with
\* file_not_found, having started no external tool and created no temporary file.
C6_MissingFileFailsEarly ==
    (Returned /\ validate_files /\ ~path_exists) =>
        /\ result.features = None
        /\ result.error # None
        /\ result.error.type = "file_not_found"
        /\ events = <<>>
        /\ created = {}

\* C6 witness: such a call has returned.
C6_Witness ==
    /\ Returned
    /\ validate_files
    /\ ~path_exists
    /\ result.error # None
    /\ result.error.type = "file_not_found"

\* The failure type the outcome of the last extractor run calls for.
ExpectedFailure(o) ==
    CASE o.kind = "timeout" -> "timeout"
      [] o.kind = "oserror" -> "unexpected"
      [] o.kind = "exit" /\ o.returncode # 0 -> "essentia_failed"
      [] o.kind = "exit" /\ o.returncode = 0 /\ o.doc = "undecodable" -> "unexpected"
      [] OTHER -> "json_parse"

-----------------------------------------------------------------------------
(* Properties of the batch pipeline *)

Attempted(t) == fate[t] # "none"

\* The run is over, by completing the extraction stage or by a fatal error.
RunEnded == main_pc \in {"extracted", "failed"}

\* Commits the processing loop owes: one per batch, or the single one of the
\* sequential mode.
ExpectedCommits ==
    IF parallel_jobs = 1 THEN 1
    ELSE (Len(tracks) + batch_size - 1) \div batch_size

\* A step of the run itself (not its start, not its being killed).
RunStep ==
    \/ \E t \in TrackIds : TrackStart(t)
    \/ \E t \in TrackIds, r \in ExtractResults : TrackExtract(t, r)
    \/ \E t \in TrackIds, raises \in BOOLEAN : TrackLogFailure(t, raises)
    \/ \E t \in TrackIds, raises \in BOOLEAN : TrackProcess(t, raises)
    \/ \E t \in TrackIds, raises \in BOOLEAN : TrackHandler(t, raises)
    \/ \E t \in TrackIds : TrackCount(t)
    \/ SequentialBegin
    \/ \E t \in TrackIds : SequentialNext(t)
    \/ SequentialCommit
    \/ SubmitBatch
    \/ \E t \in TrackIds : Collect(t)
    \/ CommitBatch
    \/ Finalize

LaterTracks == {tracks[i] : i \in {j \in 1..Len(tracks) : j > batch_start + batch_size}}

\* C10 (PipelineSpec): in parallel mode every step that commits (makes written
\* rows durable) is taken when every worker of the current batch has finished
\* and been collected, no worker is running, and no track of a later batch has
\* been submitted.
C10_CommitOnlyAtBatchBoundary ==
    [][(/\ parallel_jobs # 1
        /\ \/ music_analysis' # music_analysis
           \/ processing_log' # processing_log
           \/ commit_count' = commit_count + 1)
       => /\ \A t \in batch : w[t].pc \in Terminal /\ t \in collected
          /\ \A t \in TrackIds : ~Running(t)
          /\ \A t \in LaterTracks : w[t].pc = "unsubmitted"]_vars

\* C10 witness: a parallel run that has committed two batches, the first with
\* two workers.
C10_Witness ==
    /\ parallel_jobs = 2
    /\ batch_size = 2
    /\ commit_count = 2
    /\ {1, 2} \subseteq music_analysis

\* C11 (as claimed, PipelineSpec): no worker writes the shared statistics
\* dictionary while another worker is reading or writing it, so the counter a
\* worker has loaded for its increment still has that value when the worker
\* stores it back.
C11_WorkersShareNoMutableState ==
    \A t \in TrackIds :
        w[t].pc = "count" => w[t].loaded = run_stats[w[t].key]

-----------------------------------------------------------------------------
(* Properties of main's PCA stage *)

\* C12 (MainSpec): while main is in its PCA stage, and when the stage has ended,
\* every extraction worker of the run has finished, every batch commit has been
\* made, no extraction write is pending, and the rows the fit loaded and the
\* rows whose projected values were written are exactly the committed rows.
C12_PcaAfterExtraction ==
    main_pc \in PcaStage \cup {"complete", "failed"} =>
        /\ \A t \in TrackIds : w[t].pc \in Terminal
        /\ tx_rows = {} /\ tx_log = {}
        /\ commit_count = ExpectedCommits
        /\ pca_data \in {{}, music_analysis}
        /\ projected.run = runs => projected.ids = music_analysis

\* C12 witness: a parallel run of two batches whose tracks were both processed
\* has completed its PCA stage on the full library.
C12_Witness ==
    /\ main_pc = "complete"
    /\ parallel_jobs = 2
    /\ commit_count = 2
    /\ \A t \in TrackIds : fate[t] = "processed"
    /\ pca_data = music_analysis
    /\ projected = [run |-> runs, ids |-> music_analysis]

\* C13 (as claimed, MainSpec): when the PCA stage has failed, the transformation
\* weights, the projected values and the calibration settings in the store are
\* those it held when the stage began.
C13_FailedStagePersistsNothing ==
    main_pc = "failed" => Stores = pca_at_start

\* C14 (MainSpec): when validate_pca_integrity found no identifier in common, or
\* a column that did not pass, the run has ended in failure; a run reported
\* complete was validated on at least one row with every column passing.
C14_ValidationFailureIsFatal ==
    /\ (validation # None /\
           (\/ validation.total = 0
            \/ ~column_passed(validation.matches, validation.total)))
          => main_pc = "failed"
    /\ main_pc = "complete" =>
          /\ validation # None
          /\ validation.total > 0
          /\ column_passed(validation.matches, validation.total)

\* C14 witness: the validator found two values of a column out of tolerance and
\* the run ended in failure.
C14_Witness ==
    /\ main_pc = "failed"
    /\ validation # None
    /\ validation.total = StageRows
    /\ validation.matches = StageRows - 2

-----------------------------------------------------------------------------
(* Properties of the integrity validator *)

\* Compared values of column c within tolerance, counted from the table.
Matching(c) ==
    Cardinality({id \in DOMAIN rows :
                    /\ rows[id][c] # None
                    /\ Abs(rows[id][c].v - values(arg.seed, row_index(id), c))
                          < tolerance})

\* C15 (as claimed, IntegritySpec): the validator passes a column exactly when
\* at least 99.9% of its compared values differ by less than the tolerance.
C15_PassAtLeast999PerMille ==
    (fpc = "validated" /\ ret.total > 0) =>
        \A c \in Columns :
            ret.passed[c] <=> (Matching(c) * 1000 >= 999 * ret.total)

\* C16 (IntegritySpec): validating right after the fit and the update, with no
\* write in between, raises nothing, compares every row of the library and
\* finds every value of all ten columns within tolerance.
C16_FreshValuesValidate ==
    (fpc = "validated" /\ arg.writes = 0) =>
        /\ ret.raised = ""
        /\ ret.total = IntegrityRows
        /\ \A c \in Columns : ret.passed[c] /\ Matching(c) = IntegrityRows

\* C16 witness: such a validation has returned.
C16_Witness ==
    /\ fpc = "validated"
    /\ arg.writes = 0
    /\ arg.seed = 1000
    /\ ret.raised = ""
    /\ rows[1]["rhythmic_pc3"] = real(values(1000, row_index(1), "rhythmic_pc3"))

\* ---- C17 ----

\* The rows of the returned list that belong to discriminator n.
RowsOf(n) == {i \in DOMAIN ret : discriminator_of(ret[i].component) = n}

\* C17: after a successful fit of the fixed configuration,
\* extract_transformation_weights returns exactly 72 rows, 18 of primary_d, 21
\* of tonal, 21 of spectral and 12 of rhythmic, and no two rows share
\* (component, feature_index).
C17_SeventyTwoDistinctWeights ==
    (/\ fpc \in {"extracted", "inserted", "insert_failed"}
     /\ arg.self.core_indices = core_indices
     /\ arg.self.domain_indices = domain_indices)
    => /\ Len(ret) = ExpectedWeights
       /\ Cardinality(RowsOf("primary_d")) = 18
       /\ Cardinality(RowsOf("tonal")) = 21
       /\ Cardinality(RowsOf("spectral")) = 21
       /\ Cardinality(RowsOf("rhythmic")) = 12
       /\ \A i, j \in DOMAIN ret :
            (/\ ret[i].component = ret[j].component
             /\ ret[i].feature_index = ret[j].feature_index) => i = j
       /\ \A i \in DOMAIN ret :
            LET info == arg.self.discriminators[
                            discriminator_of(ret[i].component)]
            IN  /\ ret[i].feature_index \in 0..(Len(info.feature_indices) - 1)
                /\ ret[i].feature_name
                     = info.feature_indices[ret[i].feature_index + 1]

\* The fixed configuration has been fitted and its weights returned.
C17_Witness ==
    /\ fpc = "extracted"
    /\ arg.self.core_indices = core_indices
    /\ arg.self.domain_indices = domain_indices
    /\ Len(ret) = ExpectedWeights

\* ---- C18 ----

SettingsFor(r, d) ==
    {s \in pca_calibration_settings :
        s.resolution_level = r /\ s.discriminator = d}

\* C19: once a calibration has been stored, pca_calibration_settings holds
\* exactly one row per (resolution_level, discriminator) pair, twelve in all,
\* every one written by the most recent calibration, with inner_radius =
\* 2 * base_x and outer_radius = 3 * base_x.
C19_SettingsOfLatestRunOnly ==
    last_calibration > 0 =>
        /\ Cardinality(pca_calibration_settings) = 12
        /\ \A i \in DOMAIN Resolutions, j \in DOMAIN Discriminators :
              Cardinality(SettingsFor(Resolutions[i], Discriminators[j])) = 1
        /\ \A s \in pca_calibration_settings :
              /\ s.run = last_calibration
              /\ s.inner_radius = 2 * s.base_x
              /\ s.outer_radius = 3 * s.base_x

\* A second run has stored its calibration over that of the first.
C19_Witness ==
    /\ runs > 1
    /\ last_calibration = runs
    /\ main_pc = "validate"
    /\ pca_calibration_settings # {}

\* ---- C20 ----

\* C20: for one discriminator on one library, the base_x chosen is
\* non-decreasing in the target percentage:
\* base_x(microscope) <= base_x(magnifying_glass) <= base_x(binoculars).
C20_BaseXMonotoneInTarget ==
    fpc = "calibrated" =>
        /\ ret[1].best_x <= ret[2].best_x
        /\ ret[2].best_x <= ret[3].best_x

\* ---- C21 ----

\* The candidates of the grid, as a set.
Candidates == {x_candidates[i] : i \in DOMAIN x_candidates}

\* C21: when every neighbour distance of a discriminator is zero,
\* calibrate_resolution_controls reports the discriminator as having no
\* detectable structure and returns no ordinary base_x of the grid for it.
C21_ZeroDistancesAreReported ==
    (fpc = "calibrated" /\ arg = ZeroDistances) =>
        \A i \in DOMAIN ret : ret[i].best_x \notin Candidates

\* ---- C27 ----

\* The target percentage of the i-th resolution calibrated.
TargetOf(i) == target_pct[Resolutions[i]]

\* C27: the base_x returned for a resolution is a candidate of the grid whose
\* averaged percentage deviates least from the target, and the smallest of
\* the candidates that deviate least.
C27_BaseXIsSmallestMinimiser ==
    \A i \in DOMAIN ret :
        /\ ret[i].best_x \in Candidates
        /\ \A c \in Candidates :
              /\ error(arg, ret[i].best_x, TargetOf(i))
                    <= error(arg, c, TargetOf(i))
              /\ error(arg, c, TargetOf(i))
                    = error(arg, ret[i].best_x, TargetOf(i))
                 => ret[i].best_x <= c

\* A resolution for which two candidates deviate least and neither is the
\* first of the grid: the smaller of the two has been returned.
C27_Witness ==
    /\ fpc = "calibrated"
    /\ \E i \in DOMAIN ret :
          /\ ret[i].best_x # x_candidates[1]
          /\ \E c \in Candidates :
                /\ c > ret[i].best_x
                /\ error(arg, c, TargetOf(i))
                     = error(arg, ret[i].best_x, TargetOf(i))

-----------------------------------------------------------------------------
(* Properties of the FeatureProcessor, checked under FeatureSpec *)

\* ---- C22 ----

\* The leaves of a value reached by path: the path of each leaf (keys and list
\* indices) and what the rule stores for it.
RECURSIVE LeavesOf(_, _)
LeavesOf(value, path) ==
    IF value.t = "dict"
      THEN UNION {LeavesOf(value.d[i].v, Append(path, value.d[i].k)) :
                     i \in DOMAIN value.d}
    ELSE IF value.t = "list" /\ Len(value.l) > 0 /\ value.l[1].t = "num"
      THEN {[path |-> Append(path, ToString(i - 1)), v |-> value.l[i]] :
               i \in DOMAIN value.l}
    ELSE IF value.t = "list"
      THEN {[path |-> path, v |-> json_dumps(value)]}
    ELSE {[path |-> path, v |-> value]}

\* The key of a path: its elements joined to the prefix by the separator.
RECURSIVE KeyOf(_)
KeyOf(path) ==
    IF path = <<>> THEN "essentia"
    ELSE KeyOf(SubSeq(path, 1, Len(path) - 1)) \o "__" \o path[Len(path)]

\* C22: the flattened map holds, for every leaf path of the tree, the leaf
\* under the key that joins the path by the separator (a numeric list gives
\* one key per index, any other list is stored serialized, a scalar is
\* copied), and distinct leaf paths have distinct keys.
C22_FlattenFollowsRuleInjectively ==
    fpc # "parsed" =>
        LET L == LeavesOf(Dict(arg), <<>>)
        IN  /\ DOMAIN ret = {KeyOf(l.path) : l \in L}
            /\ \A l1, l2 \in L :
                  l1.path # l2.path => KeyOf(l1.path) # KeyOf(l2.path)
            /\ \A l \in L : ret[KeyOf(l.path)] = l.v

\* C22 as amended: the keys of the flattened map are exactly the joined leaf
\* paths, every key holds a leaf joined to it, and a leaf whose joined path
\* no other leaf shares is stored under it.
C22_FlattenFollowsRule ==
    fpc # "parsed" =>
        LET L == LeavesOf(Dict(arg), <<>>)
        IN  /\ DOMAIN ret = {KeyOf(l.path) : l \in L}
            /\ \A k \in DOMAIN ret :
                  \E l \in L : KeyOf(l.path) = k /\ ret[k] = l.v
            /\ \A l \in L :
                  (\A l2 \in L : KeyOf(l2.path) = KeyOf(l.path) => l2 = l)
                  => ret[KeyOf(l.path)] = l.v

\* A tree with a nested mapping that holds a numeric list of two elements
\* next to a list that is stored serialized, flattened without two paths
\* meeting in one key.
C22_Witness ==
    /\ fpc = "flattened"
    /\ LET L == LeavesOf(Dict(arg), <<>>)
       IN  /\ \E l \in L : Len(l.path) = 3 /\ l.path[3] = "1"
           /\ \E l \in L : "dumps" \in DOMAIN l.v
           /\ Cardinality(DOMAIN ret) = Cardinality(L)

\* ---- C23 ----

\* C23: every value of the flattened map is a scalar or a string, never a
\* mapping or a list.
C23_FlattenedValuesAreScalars ==
    fpc # "parsed" =>
        \A k \in DOMAIN ret : ret[k].t \in {"num", "str", "null"}

\* ---- C24 ----

\* C24: extract_indices returns exactly the 21 named indices and never
\* raises; a direct index whose source key is missing is 0.0.
C24_ExtractIndicesIsTotal ==
    fpc \notin {"parsed", "flattened"} =>
        /\ fpc = "indices"
        /\ DOMAIN rows = DOMAIN direct_mapping \cup derived_names
        /\ Cardinality(DOMAIN rows) = 21
        /\ \A n \in DOMAIN direct_mapping :
              direct_mapping[n] \notin DOMAIN ret => rows[n] = Num(0, 0)

-----------------------------------------------------------------------------
(* Properties of repeated extract_features calls, checked under RepeatSpec *)

\* ---- C25 ----

\* C25: two extract_features runs on the same silent track that cannot be
\* amplified return the same synthetic tree (and no error), whatever the
\* processor has counted or was called with in between.
C25_SilentFallbackIsDeterministic ==
    \A i, j \in DOMAIN rows :
        rows[i].path = rows[j].path =>
            /\ rows[i].returned = rows[j].returned
            /\ rows[i].returned.error = None
            /\ rows[i].returned.features.py = "dict"

\* The second of two runs on the same silent track has returned.
C25_Witness ==
    /\ Len(rows) = 2
    /\ rows[1].path = rows[2].path
    /\ pc = "done"


\* The metadata describe the model they are saved with: scaler mean and scale
\* and feature names of input_dim entries, and the model's configuration
\* (hidden_dims possibly serialised as None when they are the default).
MetadataDescribeModel ==
    LET md == arg.metadata
        names == IF "core_features" \in DOMAIN md THEN md["core_features"]
                 ELSE dict_get(md, "feature_names")
    IN  /\ {"scaler_mean", "scaler_scale", "model_config"} \subseteq DOMAIN md
        /\ names # None
        /\ Len(md["scaler_mean"].v) = arg.model.input_dim
        /\ Len(md["scaler_scale"].v) = arg.model.input_dim
        /\ Len(names.v) = arg.model.input_dim
        /\ \/ md["model_config"] = config_of(arg.model)
           \/ /\ arg.model.hidden_dims = default_hidden_dims
              /\ md["model_config"] =
                     PyDict(dict_update(config_of(arg.model).v,
                                        [hidden_dims |-> None]))

\* C26: for a checkpoint written by save_model with scaler mean/scale, feature
\* names and model configuration in its metadata, load_model returns
\* 'success' and sets is_loaded; encode on len(feature_names) values then
\* returns latent_dim values and decode on latent_dim values returns
\* len(feature_names) values; before a successful load encode and decode
\* raise RuntimeError.
C26_TrainerCheckpointLoadsAndEncodes ==
    /\ (~ret.is_loaded /\ ret.last.op \in {"encode", "decode"})
          => ret.last.raised = "RuntimeError"
    /\ (MetadataDescribeModel /\ ret.last.op = "load_model")
          => ret.last.raised = "" /\ ret.is_loaded
    /\ (MetadataDescribeModel /\ ret.is_loaded /\ ret.last.op = "encode"
           /\ ret.last.n = Len(ret.feature_names.v))
          => ret.last.raised = "" /\ ret.last.len = arg.model.latent_dim
    /\ (MetadataDescribeModel /\ ret.is_loaded /\ ret.last.op = "decode"
           /\ ret.last.n = arg.model.latent_dim)
          => ret.last.raised = ""
               /\ ret.last.len = Len(ret.feature_names.v)

\* A checkpoint of a model with its own hidden layers was loaded and a vector
\* of len(feature_names) values encoded.
C26_Witness ==
    /\ MetadataDescribeModel
    /\ arg.model.hidden_dims # default_hidden_dims
    /\ ret.is_loaded
    /\ ret.last.op = "encode"
    /\ ret.last.raised = ""
    /\ ret.last.len = arg.model.latent_dim

\* C28: after process_all finishes without user interruption, processed +
\* skipped + failed equals the number of selected tracks, for every
\* parallel_jobs setting and every interleaving of the workers.
C28_CountersAddUpToTotal ==
    main_pc = "extracted"
      => run_stats.processed + run_stats.skipped + run_stats.failed
           = run_stats.total

\* extract_features reports success: a features value and no error.
reports_success(r) == r.features # None /\ r.error = None

\* C29: whenever extract_features reports success, _process_single_track goes
\* on to flatten, derive and persist the track; a successful extraction is
\* never taken into the failure branch, whatever the parsed document contains
\* (an empty document included).
C29_SuccessfulExtractionIsProcessed ==
    [][\A t \in TrackIds : \A r \in ExtractResults :
          (TrackExtract(t, r) /\ reports_success(r)) => w'[t].pc = "process"]_vars

\* C30: for every non-empty sample of non-negative distances and every
\* percentile pair, choose_radii returns inner_radius <= outer_radius and
\* outer_radius >= MIN_EFFECTIVE_RADIUS, whichever fallback stage was used,
\* and used_fallback is true whenever the radii returned are not those of the
\* requested percentile pair.
C30_RadiiOrderedAndEffective ==
    fpc = "chosen" =>
      LET requested == percentile_pair(arg.distances,
                                       <<arg.inner_pct, arg.outer_pct>>)
      IN  /\ ret.inner_radius <= ret.outer_radius
          /\ ret.outer_radius >= MIN_EFFECTIVE_RADIUS
          /\ (ret.inner_radius # requested.inner
                 \/ ret.outer_radius # requested.outer) => ret.used_fallback

\* The PCA minimum was used: even the largest distance of the sample is below
\* the minimum radius, and the median is not zero.
C30_Witness ==
    /\ fpc = "chosen"
    /\ arg.mode = "pca"
    /\ ret.chosen_pair.kind = "median_max"
    /\ ret.outer_radius = MIN_EFFECTIVE_RADIUS
    /\ ret.inner_radius > 0
    /\ ret.used_fallback

=============================================================================
